---- MODULE Spec2Model ----
(***************************************************************************)
(* A model of rascii, a software 3D renderer that draws a scene graph of   *)
(* triangle meshes into a texture and prints it as ASCII art.              *)
(*                                                                         *)
(* The specifications share the variables below:                          *)
(*   SpecTex    one TextureDrawer operation applied to a Texture           *)
(*   SpecGraph  SceneGraph / TransformNode: addChild and the iterator      *)
(*   SpecWorld  TransformNode::toTransformationMatrix over a built graph   *)
(*   SpecRender App::run's frame loop over a RasciiRenderer                *)
(*   SpecQuad   one frame of a scene holding a single centered quad        *)
(*   SpecCall   one call of a function on arguments from a bounded set     *)
(*   SpecDisplay an AsciiDisplay showing a texture                         *)
(*   SpecFill   one filled triangle or circle drawn on a Texture           *)
(*   SpecCopy   a program that makes, copies, assigns and destroys Textures *)
(*   SpecDet    one Matrix::determinant or inverse call, a call or return  *)
(*              a step                                                     *)
(*   SpecInput  InputListener::listen called frame after frame             *)
(*   SpecLine   one drawLine call, an iteration of its loop a step         *)
(*                                                                         *)
(* Numbers: a C++ int is an integer (the model's values stay far from      *)
(* 2^31, but in SpecLine, which tells when drawLine's arithmetic leaves    *)
(* the 32 bits of an int); a C++ float is an exact rational <<n, d>> in    *)
(* the geometry, where                                                     *)
(* float rounding is not modelled, and an IEEE-754 binary32 value with its *)
(* rounding in the luminance of a Color.                                   *)
(***************************************************************************)
EXTENDS Integers, Sequences, FiniteSets, TLC

VARIABLES
    tex,        \* the Texture a TextureDrawer draws on (the renderer's output in SpecRender)
    before,     \* tex as it was when the last operation started
    calls,      \* the (x, y) of every Texture::set call of the last operation
    lastOp,     \* the last operation and its arguments
    parent,     \* TransformNode::parent of every node (Null: nullptr)
    children,   \* TransformNode::children of every node, in push_back order
    freed,      \* the nodes deleted through a shared_ptr<TransformNode>(this)
    nAdds,      \* the number of addChild calls made
    stack,      \* TransformNodeIterator::stack of the running range-for, top last
    visited,    \* the nodes the range-for loop has been handed, in order
    transform,  \* TransformNode::transform of every node
    worldOut,   \* the node and the result of the last TransformNode::toTransformationMatrix() call
    renderer,   \* the RasciiRenderer: _settings, _projectionMatrix, _viewMatrix, its lifecycle state
    frameLog,   \* the frames rendered so far, and what the last render() started from
    meshes,     \* the triangles of every Mesh a RenderInfo points to
    display,    \* the AsciiDisplay: _width, _height, _outputBuffer, startedStream
    probe,      \* the last call of a function on its own: its name, arguments and result
    heap,       \* the arrays made by new Color[]: their cells, or Freed after delete[]
    textures,   \* the Texture objects of a program that copies them: _width, _height, _pixels
    buttonStates, \* InputListener::buttonStates: the ButtonState of every key it holds
    keysDown,   \* the vector getKeysDown() returned to the last listen()
    fired,      \* the callbacks every listen() so far has run, in order, one entry a call
    frames,     \* the activation records of the running Matrix call, the innermost last
    pc          \* the position of the running program

texVars == <<tex, before, calls, lastOp>>
graphVars == <<parent, children, freed, nAdds>>
iterVars == <<stack, visited>>
worldVars == <<transform, worldOut>>
renderVars == <<renderer, frameLog>>
meshVars == <<meshes>>
displayVars == <<display>>
probeVars == <<probe>>
heapVars == <<heap, textures, frames>>
inputVars == <<buttonStates, keysDown, fired>>
vars == <<tex, before, calls, lastOp, parent, children, freed, nAdds, stack, visited,
          transform, worldOut, renderer, frameLog, meshes, display, probe, heap, textures,
          buttonStates, keysDown, fired, frames, pc>>

----------------------------------------------------------------------------
(* Bounds                                                                  *)

MaxW == 5         \* textures are 1..MaxW wide
MaxH == 2         \* and 1..MaxH high
Margin == 1       \* drawing coordinates reach Margin cells outside the texture
MaxRadius == 2    \* circle radii are 0..MaxRadius
MaxAdds == 3      \* at most MaxAdds addChild calls build a graph
MaxVisit == 6     \* a range-for over a graph is followed for MaxVisit nodes
FillSide == 7     \* filled shapes are drawn on textures FillSide - 1 or FillSide wide and high
FillRadius == 3   \* filled circles have the radii 0..FillRadius
TriSide == 2      \* the vertices of filled triangles have x in -1..TriSide, y in 0..TriSide
MaxBlocks == 3    \* a program that copies textures makes at most MaxBlocks arrays with new
MaxCallDepth == 40 \* the stack holds the records of MaxCallDepth nested calls
MaxListens == 3   \* the frame loop is followed for MaxListens listen() calls

----------------------------------------------------------------------------
(* Color (tex.hpp)                                                         *)

\* struct Color: four unsigned 8-bit channels
Color(r, g, b, a) == [r |-> r, g |-> g, b |-> b, a |-> a]

\* Color::Color(): black, alpha 0
ColorDefault == Color(0, 0, 0, 0)

\* Color::toChar(f) for f = n/d in [0,1]: (unsigned char)(f * 255.0f)
toChar(n, d) == ((n * 255) \div d) % 256

\* Color::fromFloat(r, g, b, a = 1.0f) with every channel given as n/d
fromFloat(rn, gn, bn, an, d) == Color(toChar(rn, d), toChar(gn, d), toChar(bn, d), toChar(an, d))

\* Color::greyscale(v) for v = n/d: fromFloat(v, v, v), alpha defaulting to 1.0
greyscale(n, d) == fromFloat(n, n, n, d, d)

\* Color::getLuminance() times 255 * 10000: 0.2126 r + 0.7152 g + 0.0722 b
\* over the channels divided by 255
getLuminance(c) == 2126 * c.r + 7152 * c.g + 722 * c.b

\* 2^n
Pow2(n) == 2^n

\* the number of binary digits of n, 0 <= n < 2^30
BitLen(n) == CHOOSE k \in 0..30 : n < 2^k /\ (k = 0 \/ n >= 2^(k - 1))

\* an IEEE-754 binary32 value m * 2^e >= 0 with a 24-bit significand m
\* (2^23 <= m < 2^24, or m = 0); the values here are far from the
\* subnormal and the overflow range
Float32(m, e) == [m |-> m, e |-> e]

Float32Zero == Float32(0, 0)

\* the binary32 value of the integer n, 0 <= n < 2^24: (float)n
ToFloat32(n) == IF n = 0 THEN Float32Zero
                ELSE Float32(n * Pow2(24 - BitLen(n)), BitLen(n) - 24)

\* the result of one float operation: the exact value (hi * 2^24 + lo) * 2^e
\* (plus something below 2^e when sticky) rounded to the nearest binary32
\* value, a tie going to the even significand
RoundNearestEven(hi, lo, e, sticky) ==
    IF hi = 0 THEN IF lo = 0 THEN Float32Zero
                   ELSE Float32(lo * Pow2(24 - BitLen(lo)), e - (24 - BitLen(lo)))
    ELSE LET h == BitLen(hi)
             keep == hi * Pow2(24 - h) + lo \div Pow2(h)
             rest == lo % Pow2(h)
             half == Pow2(h - 1)
             up == rest > half \/ (rest = half /\ (sticky \/ keep % 2 = 1))
             m == IF up THEN keep + 1 ELSE keep
         IN  IF m = Pow2(24) THEN Float32(Pow2(23), e + h + 1) ELSE Float32(m, e + h)

\* float * float: the 48-bit product of the significands from their 12-bit
\* halves, rounded once
Float32Mul(a, b) ==
    IF a.m = 0 \/ b.m = 0 THEN Float32Zero
    ELSE LET a1 == a.m \div 4096
             a0 == a.m % 4096
             b1 == b.m \div 4096
             b0 == b.m % 4096
             mid == a1 * b0 + a0 * b1
             low == (mid % 4096) * 4096 + a0 * b0
         IN  RoundNearestEven(a1 * b1 + mid \div 4096 + low \div Pow2(24),
                              low % Pow2(24), a.e + b.e, FALSE)

\* float + float for a.e >= b.e: the significand of a shifted onto b's
\* exponent, the sum rounded once; a b below half a unit of a changes nothing
Float32AddOrdered(a, b) ==
    LET d == a.e - b.e
    IN  IF d > 24 THEN a
        ELSE LET low == (a.m % Pow2(24 - d)) * Pow2(d) + b.m
             IN  RoundNearestEven(a.m \div Pow2(24 - d) + low \div Pow2(24),
                                  low % Pow2(24), b.e, FALSE)

\* float + float
Float32Add(a, b) ==
    IF a.m = 0 THEN b
    ELSE IF b.m = 0 THEN a
    ELSE IF a.e >= b.e THEN Float32AddOrdered(a, b) ELSE Float32AddOrdered(b, a)

\* (int)f of a float f >= 0: the digits after the point are dropped
Float32ToInt(f) ==
    IF f.e >= 0 THEN f.m * Pow2(f.e)
    ELSE IF f.e <= -24 THEN 0
    ELSE f.m \div Pow2(-f.e)

\* Color::toFloat(c): (float)c / 255.0f, the quotient c * 2^40 / 255 taken
\* 12 bits at a time and rounded once
toFloat(c) ==
    LET q2 == (c * 65536) \div 255
        r2 == (c * 65536) % 255
        q1 == (r2 * 4096) \div 255
        r1 == (r2 * 4096) % 255
        q0 == (r1 * 4096) \div 255
        r0 == (r1 * 4096) % 255
    IN  RoundNearestEven(q2, q1 * 4096 + q0, -40, r0 # 0)

\* the float literals 0.2126f, 0.7152f and 0.0722f of Color::getLuminance
\* (0x3e59b3d0, 0x3f371759, 0x3d93dd98)
LuminanceWeights == [r |-> Float32(14267344, -26),
                     g |-> Float32(11999065, -24),
                     b |-> Float32(9690520, -27)]

\* Color::getLuminance() as the float it returns:
\* 0.2126f * fr + 0.7152f * fg + 0.0722f * fb, every operation rounded
getLuminanceFloat(c) ==
    Float32Add(Float32Add(Float32Mul(LuminanceWeights.r, toFloat(c.r)),
                          Float32Mul(LuminanceWeights.g, toFloat(c.g))),
               Float32Mul(LuminanceWeights.b, toFloat(c.b)))

\* the colors the drawing operations are called with
DrawColors == {greyscale(1, 1), Color(10, 20, 30, 40)}

\* the colors a texture is constructed or filled with
FillColors == {ColorDefault, greyscale(0, 1), greyscale(1, 1), Color(10, 20, 30, 40)}

----------------------------------------------------------------------------
(* Texture (tex.hpp)                                                       *)

\* Texture(width, height, c): a flat array of width * height cells, all c;
\* cell (x, y) is _pixels[y * _width + x], here pixels[y * width + x + 1]
NewTexture(w, h, c) == [width |-> w, height |-> h, pixels |-> [i \in 1..(w * h) |-> c]]

\* Texture::get(x, y): no bounds check in the code; callers here stay in bounds
TexGet(t, x, y) == t.pixels[y * t.width + x + 1]

InBounds(t, x, y) == x >= 0 /\ x < t.width /\ y >= 0 /\ y < t.height

\* a bug Texture::set could have: no bounds check, the flat index deciding alone
TexSetUnchecked(t, x, y, c) ==
    LET i == y * t.width + x
    IN  IF i >= 0 /\ i < t.width * t.height
        THEN [t EXCEPT !.pixels[i + 1] = c]
        ELSE t

\* Texture::set(x, y, c): returns without writing when (x, y) is out of bounds
TexSet(t, x, y, c) ==
    IF x < 0 \/ x >= t.width \/ y < 0 \/ y >= t.height
    THEN t
    ELSE [t EXCEPT !.pixels[y * t.width + x + 1] = c]

\* *((int *)&c) on the little-endian targets of this Windows program: the four
\* channel bytes r, g, b, a read as a 32-bit two's complement int, r the low byte
ColorAsInt(c) == c.r + 256 * c.g + 65536 * c.b + 16777216 * (IF c.a >= 128 THEN c.a - 256 ELSE c.a)

\* memset(p, v, n) stores (unsigned char)v in each of the n bytes
MemsetByte(v) == v % 256

\* a bug Texture::blank could have: nothing is cleared
BlankNothing(t, c) == t

\* Texture::blank(c): memset(_pixels, colorAsInt, _width * _height * sizeof(Color));
\* every byte of every cell becomes the low byte of colorAsInt
Blank(t, c) ==
    LET byte == MemsetByte(ColorAsInt(c))
    IN  [t EXCEPT !.pixels = [i \in 1..(t.width * t.height) |-> Color(byte, byte, byte, byte)]]

\* the cells of a texture
Cells(t) == {<<x, y>> : x \in 0..(t.width - 1), y \in 0..(t.height - 1)}

----------------------------------------------------------------------------
(* TextureDrawer (tex.hpp)                                                 *)

Abs(n) == IF n < 0 THEN 0 - n ELSE n

\* Texture::set applied to the points lo..hi of a sequence of (x, y) in
\* order: the first half of them, then on the texture that gives (worked out
\* before going on; a set never changes the width) the second half
RECURSIVE SetRange(_, _, _, _, _)
SetRange(t, pts, lo, hi, c) ==
    IF lo > hi THEN t
    ELSE IF lo = hi THEN TexSet(t, pts[lo][1], pts[lo][2], c)
    ELSE LET u == SetRange(t, pts, lo, (lo + hi) \div 2, c)
         IN  IF u.width = t.width THEN SetRange(u, pts, (lo + hi) \div 2 + 1, hi, c) ELSE u

\* Texture::set applied to each point of a sequence of (x, y) in order
SetAll(t, pts, c) == SetRange(t, pts, 1, Len(pts), c)

\* a bug drawLine could have: the test for the end point precedes the write,
\* so the end point is never set
RECURSIVE LineWalkNoEnd(_, _, _, _, _, _, _, _, _)
LineWalkNoEnd(x, y, x2, y2, dx, dy, sx, sy, err) ==
    IF x = x2 /\ y = y2 THEN <<>>
    ELSE LET e2 == 2 * err
             stepX == e2 > 0 - dy
             stepY == e2 < dx
         IN  <<<<x, y>>>> \o
             LineWalkNoEnd(IF stepX THEN x + sx ELSE x, IF stepY THEN y + sy ELSE y,
                           x2, y2, dx, dy, sx, sy,
                           (IF stepX THEN err - dy ELSE err) + (IF stepY THEN dx ELSE 0))

\* the while (true) loop of drawLine from (x, y) with error term err: the
\* points passed to Texture::set, in order
RECURSIVE LineWalk(_, _, _, _, _, _, _, _, _)
LineWalk(x, y, x2, y2, dx, dy, sx, sy, err) ==
    IF x = x2 /\ y = y2 THEN <<<<x, y>>>>
    ELSE LET e2 == 2 * err
             stepX == e2 > 0 - dy
             stepY == e2 < dx
         IN  <<<<x, y>>>> \o
             LineWalk(IF stepX THEN x + sx ELSE x, IF stepY THEN y + sy ELSE y,
                      x2, y2, dx, dy, sx, sy,
                      (IF stepX THEN err - dy ELSE err) + (IF stepY THEN dx ELSE 0))

\* a bug drawLine could have: the end points are swapped so that the walk
\* always starts at the one with the smaller x
LinePointsFromLeft(x1, y1, x2, y2) ==
    LET ax == IF x2 < x1 THEN x2 ELSE x1
        ay == IF x2 < x1 THEN y2 ELSE y1
        bx == IF x2 < x1 THEN x1 ELSE x2
        by == IF x2 < x1 THEN y1 ELSE y2
    IN  LineWalk(ax, ay, bx, by, Abs(bx - ax), Abs(by - ay), 1,
                 IF ay < by THEN 1 ELSE 0 - 1, Abs(bx - ax) - Abs(by - ay))

\* drawLine(x1, y1, x2, y2, c): the points it passes to Texture::set
LinePoints(x1, y1, x2, y2) ==
    LET dx == Abs(x2 - x1)
        dy == Abs(y2 - y1)
        sx == IF x1 < x2 THEN 1 ELSE 0 - 1
        sy == IF y1 < y2 THEN 1 ELSE 0 - 1
    IN  LineWalk(x1, y1, x2, y2, dx, dy, sx, sy, dx - dy)

\* drawLine(x1, y1, x2, y2, c)
drawLine(t, x1, y1, x2, y2, c) == SetAll(t, LinePoints(x1, y1, x2, y2), c)

\* the loop of drawCircle from (cx, cy) with decision term f: the points it
\* passes to Texture::set, in order
RECURSIVE CircleWalk(_, _, _, _, _, _, _)
CircleWalk(x, y, cx, cy, f, ddFx, ddFy) ==
    IF ~(cx < cy) THEN <<>>
    ELSE LET dec == f >= 0
             cy1 == IF dec THEN cy - 1 ELSE cy
             ddFy1 == IF dec THEN ddFy + 2 ELSE ddFy
             f1 == IF dec THEN f + ddFy1 ELSE f
             cx1 == cx + 1
             ddFx1 == ddFx + 2
             f2 == f1 + ddFx1
         IN  << <<x + cx1, y + cy1>>, <<x - cx1, y + cy1>>,
                <<x + cx1, y - cy1>>, <<x - cx1, y - cy1>>,
                <<x + cy1, y + cx1>>, <<x - cy1, y + cx1>>,
                <<x + cy1, y - cx1>>, <<x - cy1, y - cx1>> >> \o
             CircleWalk(x, y, cx1, cy1, f2, ddFx1, ddFy1)

\* drawCircle(x, y, r, c) for an integer radius: the points it passes to Texture::set
CirclePoints(x, y, r) ==
    << <<x, y + r>>, <<x, y - r>>, <<x + r, y>>, <<x - r, y>> >> \o
    CircleWalk(x, y, 0, r, 1 - r, 1, 0 - 2 * r)

\* drawCircle(x, y, r, c)
drawCircle(t, x, y, r, c) == SetAll(t, CirclePoints(x, y, r), c)

\* TextureDrawer::fill(c): this->_texture->blank(c)
fill(t, c) == Blank(t, c)

----------------------------------------------------------------------------
(* float: an exact rational <<n, d>> in lowest terms with d > 0, or one of *)
(* the non-finite values <<1, 0>> (+inf), <<-1, 0>> (-inf), <<0, 0>> (NaN). *)
(* Rounding and the sign of zero are not modelled.                         *)

RECURSIVE GCD(_, _)
GCD(a, b) == IF b = 0 THEN a ELSE GCD(b, a % b)

Sign(n) == IF n > 0 THEN 1 ELSE IF n < 0 THEN 0 - 1 ELSE 0

\* the float n/d
Rat(n, d) ==
    IF d = 0 THEN <<Sign(n), 0>>
    ELSE IF d = 1 THEN <<n, 1>>
    ELSE LET g == GCD(Abs(n), Abs(d))
             s == IF d < 0 THEN 0 - 1 ELSE 1
         IN  <<s * (n \div g), s * (d \div g)>>

R0 == <<0, 1>>
R1 == <<1, 1>>
NaN == <<0, 0>>

IsFinite(a) == a[2] # 0

\* a + b: inf + (-inf) and anything with NaN are NaN
RAdd(a, b) ==
    IF a[2] = 1 /\ b[2] = 1 THEN <<a[1] + b[1], 1>>
    ELSE IF a[2] # 0 /\ b[2] # 0 THEN Rat(a[1] * b[2] + b[1] * a[2], a[2] * b[2])
    ELSE IF a[2] # 0 THEN b
    ELSE IF b[2] # 0 THEN a
    ELSE IF a[1] = b[1] THEN a
    ELSE NaN

\* a * b: inf * 0 is NaN
RMul(a, b) ==
    IF a[2] = 1 /\ b[2] = 1 THEN <<a[1] * b[1], 1>>
    ELSE Rat(a[1] * b[1], a[2] * b[2])

RNeg(a) == <<0 - a[1], a[2]>>

RSub(a, b) == RAdd(a, RNeg(b))

\* a / b: x / 0 is inf with the sign of x, 0 / 0 and inf / inf are NaN, x / inf is 0
RDiv(a, b) ==
    IF a[2] = 0 /\ b[2] = 0 THEN NaN
    ELSE IF b[1] < 0 THEN Rat((0 - a[1]) * b[2], a[2] * (0 - b[1]))
    ELSE Rat(a[1] * b[2], a[2] * b[1])

\* (int)f for a finite float: truncation toward zero
ToInt(a) ==
    IF a[1] >= 0 THEN a[1] \div a[2] ELSE 0 - ((0 - a[1]) \div a[2])

----------------------------------------------------------------------------
(* Vec (vec.hpp)                                                           *)

\* struct Vec: x, y, z, w
Vec4(x, y, z, w) == [x |-> x, y |-> y, z |-> z, w |-> w]

\* Vec(): the origin, w = 0
VecDefault == Vec4(R0, R0, R0, R0)

\* Vec(x, y, z, w = 1.0f) from integers
VecI(x, y, z) == Vec4(<<x, 1>>, <<y, 1>>, <<z, 1>>, R1)

\* Vec::operator+(const Vec&)
VecAdd(a, b) == Vec4(RAdd(a.x, b.x), RAdd(a.y, b.y), RAdd(a.z, b.z), RAdd(a.w, b.w))

\* Vec::operator-(const Vec&)
VecSub(a, b) == Vec4(RSub(a.x, b.x), RSub(a.y, b.y), RSub(a.z, b.z), RSub(a.w, b.w))

\* Vec::operator*(float)
VecScale(a, s) == Vec4(RMul(a.x, s), RMul(a.y, s), RMul(a.z, s), RMul(a.w, s))

\* Vec::operator/(float)
VecDiv(a, s) ==
    IF Len(a.w) = 2 /\ Len(s) = 2
    THEN Vec4(RDiv(a.x, s), RDiv(a.y, s), RDiv(a.z, s), RDiv(a.w, s))
    ELSE a

----------------------------------------------------------------------------
(* Matrix (matrix.hpp): float elements[16], row-major                      *)

\* Matrix(): the identity
MatIdentity ==
    <<R1, R0, R0, R0,
      R0, R1, R0, R0,
      R0, R0, R1, R0,
      R0, R0, R0, R1>>

\* Matrix::at(row, col): elements[row * 4 + col]
MatAt(m, row, col) == m[row * 4 + col + 1]

\* Matrix::set(row, col, val), when it returns
MatSet(m, row, col, val) == [m EXCEPT ![row * 4 + col + 1] = val]

\* Matrix::set is declared to return float and has no return statement:
\* flowing off its end is undefined. A build without optimization stores the
\* value and goes on, which is what the operators below compute; an optimized
\* build runs past the end of the function and the program dies there. A
\* handler that calls set (operator*, toTransformationMatrix,
\* toRotationMatrix, generateMatrices) ends in one of the two ways.
SetOutcomes == {"returns", "crashes"}

\* the inner loop of Matrix::operator*(const Matrix&): the sum over i of
\* at(row, i) * m.at(i, col), from 0
MatRowCol(a, b, row, col) ==
    RAdd(RAdd(RAdd(RAdd(R0, RMul(MatAt(a, row, 0), MatAt(b, 0, col))),
                   RMul(MatAt(a, row, 1), MatAt(b, 1, col))),
              RMul(MatAt(a, row, 2), MatAt(b, 2, col))),
         RMul(MatAt(a, row, 3), MatAt(b, 3, col)))

\* Matrix::operator*(const Matrix&): result(row, col) for every row and col
MatMul(a, b) ==
    IF Len(a) = 16 /\ Len(b) = 16
    THEN <<MatRowCol(a, b, 0, 0), MatRowCol(a, b, 0, 1), MatRowCol(a, b, 0, 2), MatRowCol(a, b, 0, 3),
           MatRowCol(a, b, 1, 0), MatRowCol(a, b, 1, 1), MatRowCol(a, b, 1, 2), MatRowCol(a, b, 1, 3),
           MatRowCol(a, b, 2, 0), MatRowCol(a, b, 2, 1), MatRowCol(a, b, 2, 2), MatRowCol(a, b, 2, 3),
           MatRowCol(a, b, 3, 0), MatRowCol(a, b, 3, 1), MatRowCol(a, b, 3, 2), MatRowCol(a, b, 3, 3)>>
    ELSE <<>>

\* one row of Matrix::operator*(const Vec&): the sum of at(row, i) * v[i]
MatVecRow(m, v, row) ==
    RAdd(RAdd(RAdd(RAdd(R0, RMul(MatAt(m, row, 0), v.x)), RMul(MatAt(m, row, 1), v.y)),
              RMul(MatAt(m, row, 2), v.z)),
         RMul(MatAt(m, row, 3), v.w))

\* Matrix::operator*(const Vec&): the vector as a column
MatVec(m, v) ==
    IF Len(m) = 16 /\ Len(v.w) = 2
    THEN Vec4(MatVecRow(m, v, 0), MatVecRow(m, v, 1), MatVecRow(m, v, 2), MatVecRow(m, v, 3))
    ELSE v

----------------------------------------------------------------------------
(* Quaternion (quaternion.hpp)                                             *)

\* Quaternion(x, y, z, w)
Quat(x, y, z, w) == [x |-> x, y |-> y, z |-> z, w |-> w]

\* Quaternion(): the identity (0, 0, 0, 1)
QuatIdentity == Quat(R0, R0, R0, R1)

\* operator* without the terms this->x * q.w, this->y * q.w and this->z * q.w
QuatMulNoScalarOnRight(p, q) ==
    Quat(RSub(RAdd(RMul(p.w, q.x), RMul(p.y, q.z)), RMul(p.z, q.y)),
         RSub(RAdd(RMul(p.w, q.y), RMul(p.z, q.x)), RMul(p.x, q.z)),
         RSub(RAdd(RMul(p.w, q.z), RMul(p.x, q.y)), RMul(p.y, q.x)),
         RSub(RSub(RSub(RMul(p.w, q.w), RMul(p.x, q.x)), RMul(p.y, q.y)), RMul(p.z, q.z)))

\* Quaternion::operator*: the Hamilton product
QuatMul(p, q) ==
    Quat(RSub(RAdd(RAdd(RMul(p.w, q.x), RMul(p.x, q.w)), RMul(p.y, q.z)), RMul(p.z, q.y)),
         RSub(RAdd(RAdd(RMul(p.w, q.y), RMul(p.y, q.w)), RMul(p.z, q.x)), RMul(p.x, q.z)),
         RSub(RAdd(RAdd(RMul(p.w, q.z), RMul(p.z, q.w)), RMul(p.x, q.y)), RMul(p.y, q.x)),
         RSub(RSub(RSub(RMul(p.w, q.w), RMul(p.x, q.x)), RMul(p.y, q.y)), RMul(p.z, q.z)))

R2 == <<2, 1>>

\* Quaternion::toRotationMatrix()
toRotationMatrix(q) ==
    LET x2 == RMul(q.x, q.x)
        y2 == RMul(q.y, q.y)
        z2 == RMul(q.z, q.z)
        xy == RMul(q.x, q.y)
        xz == RMul(q.x, q.z)
        yz == RMul(q.y, q.z)
        wx == RMul(q.w, q.x)
        wy == RMul(q.w, q.y)
        wz == RMul(q.w, q.z)
    IN  \* the identity with the nine set(row, col, val) calls applied
        <<RSub(R1, RMul(R2, RAdd(y2, z2))), RMul(R2, RSub(xy, wz)), RMul(R2, RAdd(xz, wy)), R0,
          RMul(R2, RAdd(xy, wz)), RSub(R1, RMul(R2, RAdd(x2, z2))), RMul(R2, RSub(yz, wx)), R0,
          RMul(R2, RSub(xz, wy)), RMul(R2, RAdd(yz, wx)), RSub(R1, RMul(R2, RAdd(x2, y2))), R0,
          R0, R0, R0, R1>>

----------------------------------------------------------------------------
(* Transform (scene_graph.hpp)                                             *)

\* Transform(position, rotation, scale)
Transform(p, r, s) == [position |-> p, rotation |-> r, scale |-> s]

\* Transform(): position Vec(), rotation Quaternion(), scale Vec(1, 1, 1)
TransformDefault == Transform(VecDefault, QuatIdentity, VecI(1, 1, 1))

\* a bug toTransformationMatrix could have: the rotation matrix on the left
TransformMatrixRotationLeft(t) ==
    MatMul(toRotationMatrix(t.rotation),
           <<t.scale.x, R0, R0, t.position.x,
             R0, t.scale.y, R0, t.position.y,
             R0, R0, t.scale.z, t.position.z,
             R0, R0, R0, R1>>)

\* Transform::toTransformationMatrix(): translation and scale set in one
\* matrix, multiplied on the right by the rotation matrix
TransformMatrix(t) ==
    LET \* the identity with the six set(row, col, val) calls applied
        transformationMatrix ==
            <<t.scale.x, R0, R0, t.position.x,
              R0, t.scale.y, R0, t.position.y,
              R0, R0, t.scale.z, t.position.z,
              R0, R0, R0, R1>>
    IN  MatMul(transformationMatrix, toRotationMatrix(t.rotation))

\* Transform::move(v)
move(t, v) == [t EXCEPT !.position = VecAdd(t.position, v)]

\* a bug rotate could have: the new rotation on the left
rotateLeft(t, q) == [t EXCEPT !.rotation = QuatMul(q, t.rotation)]

\* Transform::rotate(q): rotation = rotation * q
rotate(t, q) == [t EXCEPT !.rotation = QuatMul(t.rotation, q)]

\* Transform::scaleBy(float s)
scaleBy(t, s) == [t EXCEPT !.scale = VecScale(t.scale, s)]

----------------------------------------------------------------------------
(* SceneGraph and TransformNode (scene_graph.hpp)                          *)

\* the TransformNode objects of App::run: the graph's root and the three
\* nodes it makes
Root == "root"
Nodes == {Root, "transformNode", "childNode", "transformNode2"}

\* nullptr
Null == "nullptr"

\* TransformNode(): parent(nullptr), children(), for every node
NoParents == [n \in Nodes |-> Null]
NoChildren == [n \in Nodes |-> <<>>]

\* the nodes deleted when the shared_ptr that node->parent held is released:
\* it was the only owner in its control block, so the old parent is deleted,
\* and the old parent's own parent pointer with it, up the chain
RECURSIVE ReleaseChain(_, _, _)
ReleaseChain(par, n, seen) ==
    IF n = Null \/ n \in seen THEN seen
    ELSE ReleaseChain(par, par[n], seen \cup {n})

\* this->children.push_back(node)
PushBack(kids, n) == Append(kids, n)

Reverse(seq) == [i \in 1..Len(seq) |-> seq[Len(seq) + 1 - i]]

\* a bug operator++ could have: the children are pushed first to last, so the
\* last child is on top
PushChildrenForward(stk, kids) == stk \o kids

\* for (it = children.rbegin(); it != children.rend(); ++it) stack.push(*it):
\* the first child ends on top
PushChildren(stk, kids) == stk \o Reverse(kids)

\* stack.top() and the stack after stack.pop()
Top(stk) == stk[Len(stk)]
Pop(stk) == SubSeq(stk, 1, Len(stk) - 1)

\* this->children.push_back(node); node->parent = std::shared_ptr<TransformNode>(this)
\* on the graph g = [parent, children, freed], called on p
addChild(g, p, n) ==
    [children |-> [g.children EXCEPT ![p] = PushBack(g.children[p], n)],
     parent |-> [g.parent EXCEPT ![n] = p],
     freed |-> ReleaseChain(g.parent, g.parent[n], g.freed)]

\* the nodes a range-for over the graph is handed, from an iterator whose
\* stack is stk: *it, then ++it, until the stack is empty
RECURSIVE Traverse(_, _)
Traverse(kids, stk) ==
    IF stk = <<>> THEN <<>>
    ELSE <<Top(stk)>> \o Traverse(kids, PushChildren(Pop(stk), kids[Top(stk)]))

\* the state of the graph and of the iterator where a specification leaves them alone
GraphIdle ==
    /\ parent = NoParents
    /\ children = NoChildren
    /\ freed = {}
    /\ nAdds = 0
IterIdle ==
    /\ stack = <<>>
    /\ visited = <<>>

\* TransformNode(): transform(Transform()) for every node
DefaultTransforms == [n \in Nodes |-> TransformDefault]

\* no toTransformationMatrix() call was made yet
NoWorld == [node |-> Null, matrix |-> MatIdentity]

\* the transforms where a specification leaves them alone
WorldIdle ==
    /\ transform = DefaultTransforms
    /\ worldOut = NoWorld

\* no RasciiRenderer exists yet
NoRenderer ==
    [settings |-> [width |-> 1, height |-> 1, fov |-> 90, nearPlane |-> R1, farPlane |-> R2],
     projection |-> MatIdentity, view |-> MatIdentity, state |-> "None"]

\* no frame was rendered yet
NoFrames == [n |-> 0, from |-> "None", projection |-> MatIdentity, view |-> MatIdentity]

\* the renderer where a specification leaves it alone
RenderIdle ==
    /\ renderer = NoRenderer
    /\ frameLog = NoFrames

\* the Mesh objects App::run makes: meshPtr is shared by transformNode and
\* childNode, meshPtr2 belongs to transformNode2
MeshNames == {"meshPtr", "meshPtr2"}

\* Mesh(): no triangles
NoMeshes == [m \in MeshNames |-> <<>>]

\* the meshes where a specification leaves them alone
MeshIdle == meshes = NoMeshes

\* no AsciiDisplay exists yet
NoDisplay == [width |-> 0, height |-> 0, buffer |-> <<>>, startedStream |-> FALSE,
              written |-> <<>>]

\* the display where a specification leaves it alone
DisplayIdle == display = NoDisplay

\* no function was called on its own yet
NoProbe == [f |-> "none", args |-> <<>>, result |-> <<>>]

\* the probe where a specification leaves it alone
ProbeIdle == probe = NoProbe

\* the names of the Texture objects of a program that copies textures
TextureNames == {"t", "u"}

\* no array was made with new, and no Texture object is alive: textures maps
\* the names of the objects alive to them
HeapIdle == heap = <<>> /\ textures = <<>> /\ frames = <<>>

\* an InputListener() that never listened: buttonStates is an empty map
InputIdle == buttonStates = <<>> /\ keysDown = <<>> /\ fired = <<>>

\* TransformNode::addChild(node) called on p: push_back, then node->parent is
\* assigned a new shared_ptr owning p; the shared_ptr it held is released, which
\* deletes the old parent chain. Neither object may already be deleted (the
\* call would read freed memory; what follows is not modelled).
AddChild(p, n) ==
    /\ pc = "build"
    /\ nAdds < MaxAdds
    /\ p \notin freed /\ n \notin freed
    /\ LET g == addChild([parent |-> parent, children |-> children, freed |-> freed], p, n)
       IN  /\ children' = g.children
           /\ parent' = g.parent
           /\ freed' = g.freed
    /\ nAdds' = nAdds + 1
    /\ UNCHANGED <<pc, iterVars, texVars, worldVars, renderVars, meshVars, displayVars, heapVars, inputVars, probeVars>>

\* node->addChild(child) on any node, the root included
NodeAddChild == \E p \in Nodes, n \in Nodes : AddChild(p, n)

\* SceneGraph::addChild(node): this->root->addChild(node)
GraphAddChild == \E n \in Nodes : AddChild(Root, n)

\* for (auto node : sceneGraph): SceneGraph::begin() is root->begin(), an
\* iterator whose stack holds the root; end() has an empty stack
IterBegin ==
    /\ pc = "build"
    /\ Root \notin freed
    /\ stack' = <<Root>>
    /\ visited' = <<>>
    /\ pc' = "iter"
    /\ UNCHANGED <<graphVars, texVars, worldVars, renderVars, meshVars, displayVars, heapVars, inputVars, probeVars>>

\* one turn of the loop: it != end() (the stack is not empty), node = *it
\* (stack.top()), the body, then ++it: pop and push the children reversed
IterNext ==
    /\ pc = "iter"
    /\ stack # <<>>
    /\ Len(visited) < MaxVisit
    /\ Top(stack) \notin freed
    /\ visited' = Append(visited, Top(stack))
    /\ stack' = PushChildren(Pop(stack), children[Top(stack)])
    /\ UNCHANGED <<pc, graphVars, texVars, worldVars, renderVars, meshVars, displayVars, heapVars, inputVars, probeVars>>

\* it != end() is false (both stacks are empty): the loop is left
IterEnd ==
    /\ pc = "iter"
    /\ stack = <<>>
    /\ pc' = "iterdone"
    /\ UNCHANGED <<iterVars, graphVars, texVars, worldVars, renderVars, meshVars, displayVars, heapVars, inputVars, probeVars>>

\* SceneGraph(): a root with no parent and no children; the other nodes as
\* std::make_shared<TransformNode>(...) leaves them
GraphInit ==
    /\ GraphIdle
    /\ IterIdle
    /\ pc = "build"

----------------------------------------------------------------------------
(* TextureDrawer::fillTriangle and fillCircle (tex.hpp); a point is <<x, y>> *)

\* one step of the bubble sort: orderedPoints[j] and [j + 1] are swapped
\* when the first has the larger y (ps[j] here is orderedPoints[j - 1])
SwapIfBelow(ps, j) ==
    IF ps[j][2] > ps[j + 1][2]
    THEN [ps EXCEPT ![j] = ps[j + 1], ![j + 1] = ps[j]]
    ELSE ps

\* the bubble sort of fillTriangle: i = 0 compares at j = 0 and j = 1,
\* i = 1 at j = 0; the result is <<top, middle, bottom>>
OrderByY(p1, p2, p3) == SwapIfBelow(SwapIfBelow(SwapIfBelow(<<p1, p2, p3>>, 1), 2), 1)

\* one float division (b.x - a.x) / (b.y - a.y), with what it divides
SlopeDivision(a, b) ==
    [num |-> b[1] - a[1],
     den |-> b[2] - a[2],
     slope |-> RDiv(RSub(<<b[1], 1>>, <<a[1], 1>>), RSub(<<b[2], 1>>, <<a[2], 1>>))]

\* the three divisions fillTriangle makes before its loops:
\* topToMiddleSlope, topToBottomSlope, middleToBottomSlope
TriangleDivisions(ps) ==
    <<SlopeDivision(ps[1], ps[2]), SlopeDivision(ps[1], ps[3]), SlopeDivision(ps[2], ps[3])>>

\* int x = from.x + (y - from.y) * slope
EdgeX(from, y, slope) == ToInt(RAdd(<<from[1], 1>>, RMul(<<y - from[2], 1>>, slope)))

\* a top loop that also runs for y = middle.y
TopRowsInclusive(ps) == ps[1][2]..ps[2][2]

\* the scanlines of the first loop: for (int y = top.y; y < middle.y; y++)
TopRows(ps) == ps[1][2]..(ps[2][2] - 1)

\* a bottom loop that also runs for y = bottom.y
BottomRowsInclusive(ps) == ps[2][2]..ps[3][2]

\* the scanlines of the second loop: for (int y = middle.y; y < bottom.y; y++)
BottomRows(ps) == ps[2][2]..(ps[3][2] - 1)

\* whether every slope a loop iteration multiplies with is finite; the
\* conversion of a float that is not to an int is undefined
SlopesUsedFinite(ps) ==
    LET d == TriangleDivisions(ps)
    IN  /\ TopRows(ps) # {} => IsFinite(d[1].slope) /\ IsFinite(d[2].slope)
        /\ BottomRows(ps) # {} => IsFinite(d[3].slope) /\ IsFinite(d[2].slope)

\* the drawLine(x1, y, x2, y, c) calls of the two loops as <<x1, y, x2>>:
\* y runs from top.y below middle.y, then from middle.y below bottom.y
TriangleSpans(ps) ==
    LET d == TriangleDivisions(ps)
        upper == [k \in 1..Cardinality(TopRows(ps)) |->
                     LET y == ps[1][2] + k - 1
                     IN  <<EdgeX(ps[1], y, d[1].slope), y, EdgeX(ps[1], y, d[2].slope)>>]
        lower == [k \in 1..Cardinality(BottomRows(ps)) |->
                     LET y == ps[2][2] + k - 1
                     IN  <<EdgeX(ps[2], y, d[3].slope), y, EdgeX(ps[1], y, d[2].slope)>>]
    IN  upper \o lower

\* the points the drawLine calls of spans k.. pass to Texture::set, in order
RECURSIVE SpanPoints(_, _)
SpanPoints(spans, k) ==
    IF k > Len(spans) THEN <<>>
    ELSE LinePoints(spans[k][1], spans[k][2], spans[k][3], spans[k][2]) \o
         SpanPoints(spans, k + 1)

\* fillTriangle(p1, p2, p3, c): the points it passes to Texture::set
FillTrianglePoints(p1, p2, p3) == SpanPoints(TriangleSpans(OrderByY(p1, p2, p3)), 1)

\* fillTriangle(p1, p2, p3, c)
fillTriangle(t, p1, p2, p3, c) == SetAll(t, FillTrianglePoints(p1, p2, p3), c)

\* for (int i = lo; i <= hi; i++) { set(xa, i, c); set(xb, i, c); }
ColumnPair(xa, xb, lo, hi) ==
    [k \in 1..(2 * (hi - lo + 1)) |->
        <<IF k % 2 = 1 THEN xa ELSE xb, lo + (k - 1) \div 2>>]

\* for (int i = lo; i <= hi; i++) set(x, i, c);
Column(x, lo, hi) == [k \in 1..(hi - lo + 1) |-> <<x, lo + k - 1>>]

\* a bug fillCircle could have: the columns at x + cy and x - cy are left out
RECURSIVE FillCircleWalkInner(_, _, _, _, _, _, _)
FillCircleWalkInner(x, y, cx, cy, f, ddFx, ddFy) ==
    IF ~(cx < cy) THEN <<>>
    ELSE LET dec == f >= 0
             cy1 == IF dec THEN cy - 1 ELSE cy
             ddFy1 == IF dec THEN ddFy + 2 ELSE ddFy
             f1 == IF dec THEN f + ddFy1 ELSE f
             cx1 == cx + 1
             ddFx1 == ddFx + 2
             f2 == f1 + ddFx1
         IN  ColumnPair(x + cx1, x - cx1, y - cy1, y + cy1) \o
             FillCircleWalkInner(x, y, cx1, cy1, f2, ddFx1, ddFy1)

\* the while (cx < cy) loop of fillCircle from (cx, cy) with decision term
\* f: the points it passes to Texture::set, in order
RECURSIVE FillCircleWalk(_, _, _, _, _, _, _)
FillCircleWalk(x, y, cx, cy, f, ddFx, ddFy) ==
    IF ~(cx < cy) THEN <<>>
    ELSE LET dec == f >= 0
             cy1 == IF dec THEN cy - 1 ELSE cy
             ddFy1 == IF dec THEN ddFy + 2 ELSE ddFy
             f1 == IF dec THEN f + ddFy1 ELSE f
             cx1 == cx + 1
             ddFx1 == ddFx + 2
             f2 == f1 + ddFx1
         IN  ColumnPair(x + cx1, x - cx1, y - cy1, y + cy1) \o
             ColumnPair(x + cy1, x - cy1, y - cx1, y + cx1) \o
             FillCircleWalk(x, y, cx1, cy1, f2, ddFx1, ddFy1)

\* fillCircle(x, y, r, c) for an integer radius: the points it passes to
\* Texture::set: the column through the centre, then the loop
FillCirclePoints(x, y, r) ==
    Column(x, y - r, y + r) \o FillCircleWalk(x, y, 0, r, 1 - r, 1, 0 - 2 * r)

\* fillCircle(x, y, r, c)
fillCircle(t, x, y, r, c) == SetAll(t, FillCirclePoints(x, y, r), c)

----------------------------------------------------------------------------
(* AsciiDisplay (display.hpp); a char is its ASCII code                    *)

\* _luminanceTable = " .:-=+*#%@"
luminanceTable == <<32, 46, 58, 45, 61, 43, 42, 35, 37, 64>>

\* _luminanceTableSize
luminanceTableSize == 10

\* a bug luminanceToAscii could have: the luminance times the table size
luminanceIndexBySize(luminance) ==
    Float32ToInt(Float32Mul(luminance, ToFloat32(luminanceTableSize)))

\* the index luminanceToAscii reads the table at:
\* (int)(luminance * (_luminanceTableSize - 1)), a float product
luminanceIndex(luminance) ==
    Float32ToInt(Float32Mul(luminance, ToFloat32(luminanceTableSize - 1)))

\* whether _luminanceTable[index] is a character of the table; a read
\* beyond it is a read outside the string literal
InTable(luminance) == luminanceIndex(luminance) \in 0..(luminanceTableSize - 1)

\* luminanceToAscii(luminance) for an index inside the table
luminanceToAscii(luminance) == luminanceTable[luminanceIndex(luminance) + 1]

\* getBufferSize(): _width * _height + _height + 1
getBufferSize(w, h) == w * h + h + 1

\* what malloc's memory may hold before it is written: any byte; here a
\* newline, a character of the table or a byte that is not ASCII, the same
\* in every place
GarbageBytes == {10, 64, 200}

\* AsciiDisplay(width, height): the buffer is malloc'ed and only its last
\* byte is set, to NUL; buffer[i + 1] is _outputBuffer[i]
AsciiDisplay(w, h, garbage) ==
    [width |-> w, height |-> h,
     buffer |-> [i \in 1..getBufferSize(w, h) |->
                    IF i = getBufferSize(w, h) THEN 0 ELSE garbage],
     startedStream |-> FALSE,
     written |-> <<>>]

\* prepare(): the rewind string once a frame was drawn, else the cleanup
\* string and the sequence that hides the cursor go to stderr
AsciiPrepare(d) ==
    [d EXCEPT !.written = IF d.startedStream THEN <<"rewindStr">>
                          ELSE <<"cleanupStr", "hideCursor">>]

\* cleanup(): the cleanup string if a frame was drawn, then the cursor is shown
AsciiCleanup(d) ==
    [d EXCEPT !.written = IF d.startedStream THEN <<"cleanupStr", "showCursor">>
                          ELSE <<"showCursor">>]

\* a render as wide as the texture, whatever the width of the display
RenderWidthOfTexture(d, t) == t.width

\* the part of the display draw() fills: std::min of the two sizes
RenderWidth(d, t) == IF d.width < t.width THEN d.width ELSE t.width
RenderHeight(d, t) == IF d.height < t.height THEN d.height ELSE t.height

\* tex.get(x, y).getLuminance() for the cells of t, by their color
CellLuminance(t) ==
    [c \in {t.pixels[i] : i \in 1..(t.width * t.height)} |-> getLuminanceFloat(c)]

\* whether every cell draw() reads gives an index inside the table
DrawInTable(d, t) ==
    LET luminance == CellLuminance(t)
    IN  \A x \in 0..(RenderWidth(d, t) - 1), y \in 0..(RenderHeight(d, t) - 1) :
            InTable(luminance[TexGet(t, x, y)])

\* the stores draw() makes into _outputBuffer, as <<index, char>> in the
\* order of the two loops: row y writes the characters of its renderWidth
\* cells at y * _width + x + y and then a newline at
\* y * _width + y + renderWidth
DrawStores(d, t) ==
    LET rw == RenderWidth(d, t)
        rh == RenderHeight(d, t)
        luminance == CellLuminance(t)
    IN  [k \in 1..(rh * (rw + 1)) |->
            LET y == (k - 1) \div (rw + 1)
                x == (k - 1) % (rw + 1)
            IN  IF x < rw
                THEN <<y * d.width + x + y, luminanceToAscii(luminance[TexGet(t, x, y)])>>
                ELSE <<y * d.width + y + rw, 10>>]

\* a buffer after a sequence of stores: the last store to an index stays
StoreAll(buffer, stores) ==
    [i \in 1..Len(buffer) |->
        LET ks == {k \in 1..Len(stores) : stores[k][1] = i - 1}
        IN  IF ks = {} THEN buffer[i]
            ELSE stores[CHOOSE k \in ks : \A j \in ks : j <= k][2]]

\* a bug draw() could have: the characters of a row go to the columns in
\* reverse
AsciiDrawMirrored(d, t) ==
    LET stores == DrawStores(d, t)
        rw == RenderWidth(d, t)
        turned == [k \in 1..Len(stores) |->
                      IF stores[k][2] = 10 THEN stores[k]
                      ELSE <<stores[k][1] + rw - 1 - 2 * ((k - 1) % (rw + 1)), stores[k][2]>>]
    IN  [d EXCEPT !.startedStream = TRUE,
                  !.buffer = StoreAll(d.buffer, turned),
                  !.written = <<"outputBuffer">>]

\* draw(tex): startedStream is set, the stores are made and the whole
\* buffer, getBufferSize() bytes, goes to stderr
AsciiDraw(d, t) ==
    [d EXCEPT !.startedStream = TRUE,
              !.buffer = StoreAll(d.buffer, DrawStores(d, t)),
              !.written = <<"outputBuffer">>]

----------------------------------------------------------------------------
(* SpecTex: a texture is constructed and one drawing operation runs on it  *)

NoOp == [op |-> "none", x1 |-> 0, y1 |-> 0, x2 |-> 0, y2 |-> 0, c |-> ColorDefault]

\* the x and y a drawing call is given for texture t
XCoords(t) == (0 - Margin)..(t.width - 1 + Margin)
YCoords(t) == (0 - Margin)..(t.height - 1 + Margin)

\* std::make_shared<Texture>(w, h, c); TextureDrawer drawer(texPtr)
TexInit ==
    /\ \E w \in 1..MaxW, h \in 1..MaxH, c \in FillColors : tex = NewTexture(w, h, c)
    /\ before = tex
    /\ calls = <<>>
    /\ lastOp = NoOp
    /\ pc = "fresh"
    /\ GraphIdle
    /\ IterIdle
    /\ WorldIdle
    /\ RenderIdle
    /\ MeshIdle
    /\ DisplayIdle
    /\ ProbeIdle
    /\ HeapIdle
    /\ InputIdle

\* texPtr->set(x, y, c)
DoSet ==
    /\ pc = "fresh"
    /\ \E x \in XCoords(tex), y \in YCoords(tex), c \in DrawColors :
          /\ tex' = TexSet(tex, x, y, c)
          /\ calls' = <<<<x, y>>>>
          /\ lastOp' = [op |-> "set", x1 |-> x, y1 |-> y, x2 |-> x, y2 |-> y, c |-> c]
    /\ before' = tex
    /\ pc' = "done"
    /\ UNCHANGED <<graphVars, iterVars, worldVars, renderVars, meshVars, displayVars, heapVars, inputVars, probeVars>>

\* drawer.fill(c)
DoFill ==
    /\ pc = "fresh"
    /\ \E c \in FillColors :
          /\ tex' = fill(tex, c)
          /\ lastOp' = [op |-> "fill", x1 |-> 0, y1 |-> 0, x2 |-> 0, y2 |-> 0, c |-> c]
    /\ calls' = <<>>
    /\ before' = tex
    /\ pc' = "done"
    /\ UNCHANGED <<graphVars, iterVars, worldVars, renderVars, meshVars, displayVars, heapVars, inputVars, probeVars>>

\* drawer.drawLine(x1, y1, x2, y2, c)
DoDrawLine ==
    /\ pc = "fresh"
    /\ \E x1 \in XCoords(tex), y1 \in YCoords(tex),
          x2 \in XCoords(tex), y2 \in YCoords(tex), c \in DrawColors :
          /\ tex' = drawLine(tex, x1, y1, x2, y2, c)
          /\ calls' = LinePoints(x1, y1, x2, y2)
          /\ lastOp' = [op |-> "drawLine", x1 |-> x1, y1 |-> y1, x2 |-> x2, y2 |-> y2, c |-> c]
    /\ before' = tex
    /\ pc' = "done"
    /\ UNCHANGED <<graphVars, iterVars, worldVars, renderVars, meshVars, displayVars, heapVars, inputVars, probeVars>>

\* drawer.drawCircle(x, y, r, c)
DoDrawCircle ==
    /\ pc = "fresh"
    /\ \E x \in XCoords(tex), y \in YCoords(tex), r \in 0..MaxRadius, c \in DrawColors :
          /\ tex' = drawCircle(tex, x, y, r, c)
          /\ calls' = CirclePoints(x, y, r)
          /\ lastOp' = [op |-> "drawCircle", x1 |-> x, y1 |-> y, x2 |-> r, y2 |-> r, c |-> c]
    /\ before' = tex
    /\ pc' = "done"
    /\ UNCHANGED <<graphVars, iterVars, worldVars, renderVars, meshVars, displayVars, heapVars, inputVars, probeVars>>

TexNext == DoSet \/ DoFill \/ DoDrawLine \/ DoDrawCircle

SpecTex == TexInit /\ [][TexNext]_vars

\* the texture where a specification leaves it alone
TexIdle ==
    /\ tex = NewTexture(1, 1, ColorDefault)
    /\ before = tex
    /\ calls = <<>>
    /\ lastOp = NoOp

----------------------------------------------------------------------------
(* SpecGraph: a scene graph is built by addChild calls, then iterated      *)

SceneInit ==
    GraphInit /\ TexIdle /\ WorldIdle /\ RenderIdle /\ MeshIdle /\ DisplayIdle /\ ProbeIdle
    /\ HeapIdle /\ InputIdle

SceneNext == NodeAddChild \/ GraphAddChild \/ IterBegin \/ IterNext \/ IterEnd

SpecGraph == SceneInit /\ [][SceneNext]_vars

----------------------------------------------------------------------------
(* SpecWorld: nodes constructed with given transforms are linked by        *)
(* addChild calls, then one node is asked for its world matrix             *)

MaxWorldAdds == 2

\* a bug toTransformationMatrix could have: the local matrix is multiplied on the left
RECURSIVE LocalTimesParent(_, _, _)
LocalTimesParent(par, tr, n) ==
    IF par[n] # Null
    THEN MatMul(TransformMatrix(tr[n]), LocalTimesParent(par, tr, par[n]))
    ELSE TransformMatrix(tr[n])

\* TransformNode::toTransformationMatrix(): the local matrix, multiplied on the
\* left by the parent's toTransformationMatrix() when there is a parent
RECURSIVE NodeMatrix(_, _, _)
NodeMatrix(par, tr, n) ==
    IF par[n] # Null
    THEN MatMul(NodeMatrix(par, tr, par[n]), TransformMatrix(tr[n]))
    ELSE TransformMatrix(tr[n])

\* the parent pointers from n lead to a node without parent through live
\* nodes only: toTransformationMatrix() returns. Otherwise it reads a deleted
\* node or recurses without end.
RECURSIVE ChainOk(_, _, _, _)
ChainOk(par, fr, n, seen) ==
    /\ n \notin fr
    /\ n \notin seen
    /\ (par[n] = Null \/ ChainOk(par, fr, par[n], seen \cup {n}))

TransformNodeName == "transformNode"
ChildNodeName == "childNode"
TransformNode2Name == "transformNode2"

\* the half-turn quaternions (sin of the half angle 1, cos 0) about the y and x axes
HalfTurnY == Quat(R0, R1, R0, R0)
HalfTurnX == Quat(R1, R0, R0, R0)

\* the transforms App::run gives its nodes, one of them turned
AppTransforms ==
    [n \in Nodes |->
        IF n = TransformNodeName THEN rotate(move(TransformDefault, VecI(3, 0, 0 - 25)), HalfTurnY)
        ELSE IF n = ChildNodeName THEN scaleBy(move(TransformDefault, VecI(0, 0, 0 - 5)), <<1, 2>>)
        ELSE IF n = TransformNode2Name THEN move(TransformDefault, VecI(0 - 3, 0, 0 - 15))
        ELSE TransformDefault]

\* the same with a root that is moved, turned and scaled
MovedRootTransforms ==
    [AppTransforms EXCEPT ![Root] = rotate(scaleBy(move(TransformDefault, VecI(1, 2, 3)), R2), HalfTurnX)]

\* the transforms the nodes are constructed with
TransformChoices == {DefaultTransforms, AppTransforms, MovedRootTransforms}

\* std::make_shared<TransformNode>(transform, renderInfo) for every node
WorldInit ==
    /\ transform \in TransformChoices
    /\ worldOut = NoWorld
    /\ GraphIdle
    /\ IterIdle
    /\ TexIdle
    /\ RenderIdle
    /\ MeshIdle
    /\ DisplayIdle
    /\ ProbeIdle
    /\ HeapIdle
    /\ InputIdle
    /\ pc = "build"

\* p->addChild(n)
WorldAddChild == \E p \in Nodes, n \in Nodes : nAdds < MaxWorldAdds /\ AddChild(p, n)

\* n->toTransformationMatrix()
ToWorld ==
    /\ pc = "build"
    /\ \E n \in Nodes, o \in SetOutcomes :
          IF ChainOk(parent, freed, n, {}) /\ o = "returns"
          THEN /\ worldOut' = [node |-> n, matrix |-> NodeMatrix(parent, transform, n)]
               /\ pc' = "asked"
          ELSE /\ worldOut' = worldOut
               /\ pc' = "undefined"
    /\ UNCHANGED <<transform, graphVars, iterVars, texVars, renderVars, meshVars, displayVars, heapVars, inputVars, probeVars>>

WorldNext == WorldAddChild \/ ToWorld

SpecWorld == WorldInit /\ [][WorldNext]_vars

----------------------------------------------------------------------------
(* SpecRender: App::run: a renderer is constructed from the settings, the  *)
(* scene is built, and the frame loop prepares, renders and turns the nodes *)

MaxFrames == 3

\* RenderSettings(width, height, fov, nearPlane, farPlane); fov in whole degrees
RenderSettings(w, h, fov, near, far) ==
    [width |-> w, height |-> h, fov |-> fov, nearPlane |-> near, farPlane |-> far]

\* the values the settings are made of: OUTPUT_WIDTH and OUTPUT_HEIGHT come
\* from the console window, the other three are the caller's
Widths == {12, 0, 0 - 12}
Heights == {6, 0}
Fovs == {90, 0, 0 - 90}
NearPlanes == {<<1, 10>>, R0, <<0 - 1, 10>>}
FarPlanes == {<<100, 1>>, R0, <<0 - 100, 1>>}
SettingsChoices ==
    {RenderSettings(w, h, v, n, f) :
        w \in Widths, h \in Heights, v \in Fovs, n \in NearPlanes, f \in FarPlanes}

\* tanf(fov * 0.5f / 180.0f * 3.14159f) for the fov values used
TanHalfFov(fov) ==
    IF fov = 90 THEN R1 ELSE IF fov = 0 - 90 THEN RNeg(R1) ELSE R0

\* a bug prepare() could have: the matrices stay as the constructor left them
generateNothing(st) == [projection |-> MatIdentity, view |-> MatIdentity]

\* RasciiRenderer::generateMatrices(): _projectionMatrix and _viewMatrix
generateMatrices(st) ==
    LET aspectRatio == RDiv(<<st.height, 1>>, <<st.width, 1>>)
        fovRad == RDiv(R1, TanHalfFov(st.fov))
        range == RSub(st.farPlane, st.nearPlane)
        halfWidth == RDiv(<<st.width, 1>>, R2)
        halfHeight == RDiv(<<st.height, 1>>, R2)
        \* the identity with set(0,0), set(1,1), set(2,2), set(3,2), set(2,3), set(3,3) applied
        projectionMatrix ==
            <<RMul(aspectRatio, fovRad), R0, R0, R0,
              R0, fovRad, R0, R0,
              R0, R0, RDiv(st.farPlane, range), R1,
              R0, R0, RDiv(RMul(RNeg(st.farPlane), st.nearPlane), range), R0>>
        \* the identity with set(0,0), set(1,1), set(0,3), set(1,3) applied
        viewMatrix ==
            <<halfWidth, R0, R0, halfWidth,
              R0, halfHeight, R0, halfHeight,
              R0, R0, R1, R0,
              R0, R0, R0, R1>>
    IN  [projection |-> projectionMatrix, view |-> viewMatrix]

\* a bug worldToTexture could have: no homogeneous divide at all
worldToTextureNoDivide(r, worldPos) == MatVec(r.view, MatVec(r.projection, worldPos))

\* RasciiRenderer::worldToTexture(worldPos)
worldToTexture(r, worldPos) ==
    LET sp == MatVec(r.projection, worldPos)
        screenPos == VecDiv(sp, sp.w)
        tp == MatVec(r.view, screenPos)
    IN  VecDiv(tp, tp.w)

\* Vec::cross(v): the w of the result is 0
cross(a, b) ==
    Vec4(RSub(RMul(a.y, b.z), RMul(a.z, b.y)),
         RSub(RMul(a.z, b.x), RMul(a.x, b.z)),
         RSub(RMul(a.x, b.y), RMul(a.y, b.x)),
         R0)

\* sqrt of a float that is the square of a rational (the only ones taken here)
Sqrt(a) ==
    <<CHOOSE k \in 0..a[1] : k * k = a[1], CHOOSE k \in 1..a[2] : k * k = a[2]>>

\* Vec::length()
length(v) ==
    Sqrt(RAdd(RAdd(RAdd(RMul(v.x, v.x), RMul(v.y, v.y)), RMul(v.z, v.z)), RMul(v.w, v.w)))

\* MeshVertex(position, normal)
MeshVertex(position, normal) == [position |-> position, normal |-> normal]

\* Triangle(const Vec& v1, v2, v3): the three vertices get the normalized
\* cross product of the two edges from v1 as their normal
Triangle(v1, v2, v3) ==
    LET c == cross(VecSub(v2, v1), VecSub(v3, v1))
        normal == VecDiv(c, length(c))
    IN  <<MeshVertex(v1, normal), MeshVertex(v2, normal), MeshVertex(v3, normal)>>

\* Mesh::centeredQuad(): two triangles
centeredQuad ==
    <<Triangle(VecI(1, 1, 0), VecI(1, 0 - 1, 0), VecI(0 - 1, 0 - 1, 0)),
      Triangle(VecI(0 - 1, 0 - 1, 0), VecI(0 - 1, 1, 0), VecI(1, 1, 0))>>

\* renderInfo.mesh of the nodes App::run makes: the root has none (nullptr),
\* transformNode and childNode share meshPtr, transformNode2 has meshPtr2
MeshPtrOf(n) ==
    IF n = Root THEN Null
    ELSE IF n = TransformNode2Name THEN "meshPtr2" ELSE "meshPtr"

\* the triangles of node->renderInfo.mesh (none for nullptr)
MeshOf(n) == IF MeshPtrOf(n) = Null THEN <<>> ELSE meshes[MeshPtrOf(n)]

\* a bug Mesh::transform could have: the normals are copied, not multiplied
RECURSIVE MeshTransformPositions(_, _)
MeshTransformPositions(mesh, m) ==
    IF mesh = <<>> THEN <<>>
    ELSE <<<<MeshVertex(MatVec(m, mesh[1][1].position), mesh[1][1].normal),
             MeshVertex(MatVec(m, mesh[1][2].position), mesh[1][2].normal),
             MeshVertex(MatVec(m, mesh[1][3].position), mesh[1][3].normal)>>>>
         \o MeshTransformPositions(Tail(mesh), m)

\* Mesh::transform(transformationMatrix), the mesh it returns: a new triangle
\* for every triangle, position and normal of each vertex multiplied by the matrix
RECURSIVE MeshTransform(_, _)
MeshTransform(mesh, m) ==
    IF mesh = <<>> THEN <<>>
    ELSE <<<<MeshVertex(MatVec(m, mesh[1][1].position), MatVec(m, mesh[1][1].normal)),
             MeshVertex(MatVec(m, mesh[1][2].position), MatVec(m, mesh[1][2].normal)),
             MeshVertex(MatVec(m, mesh[1][3].position), MatVec(m, mesh[1][3].normal))>>>>
         \o MeshTransform(Tail(mesh), m)

\* a bug Mesh::transform could have: the triangles of the mesh it is called
\* on are overwritten with the transformed ones
MeshTransformInPlace(mesh, m) == MeshTransform(mesh, m)

\* Mesh::transform(transformationMatrix), the mesh it is called on: the
\* member is const and assigns to transformedMesh.triangles only
MeshAfterTransform(mesh, m) == mesh

\* the loop over the transformed triangles in render(): each vertex position
\* goes through worldToTexture
RECURSIVE TrianglesToTexture(_, _)
TrianglesToTexture(r, tm) ==
    IF tm = <<>> THEN <<>>
    ELSE <<<<worldToTexture(r, tm[1][1].position), worldToTexture(r, tm[1][2].position),
             worldToTexture(r, tm[1][3].position)>>>>
         \o TrianglesToTexture(r, Tail(tm))

\* the meshes after render() went over the nodes it is handed: each node's
\* mesh after the Mesh::transform call made on it
RECURSIVE MeshesAfterRender(_, _, _, _)
MeshesAfterRender(ms, par, tr, nodes) ==
    IF nodes = <<>> THEN ms
    ELSE LET n == Head(nodes)
             ptr == MeshPtrOf(n)
         IN  IF ptr = Null
             THEN MeshesAfterRender(ms, par, tr, Tail(nodes))
             ELSE MeshesAfterRender(
                      [ms EXCEPT ![ptr] = MeshAfterTransform(@, NodeMatrix(par, tr, n))],
                      par, tr, Tail(nodes))

\* the triangles render() draws for the nodes it is handed, in texture space:
\* nodes without mesh are skipped, the others' meshes are transformed by the
\* node's world matrix and each vertex goes through worldToTexture
RECURSIVE FrameTriangles(_, _, _, _)
FrameTriangles(r, par, tr, nodes) ==
    IF nodes = <<>> THEN <<>>
    ELSE LET n == Head(nodes)
         IN  TrianglesToTexture(r, MeshTransform(MeshOf(n), NodeMatrix(par, tr, n)))
             \o FrameTriangles(r, par, tr, Tail(nodes))

\* every float that is converted to int is finite (the conversion of an
\* infinity or a NaN is undefined)
TrianglesDefined(tris) ==
    \A i \in 1..Len(tris) : \A j \in 1..3 : IsFinite(tris[i][j].x) /\ IsFinite(tris[i][j].y)

\* TextureDrawer::drawLine(p1, p2, c): the floats are converted to int
drawLineVec(t, p1, p2, c) == drawLine(t, ToInt(p1.x), ToInt(p1.y), ToInt(p2.x), ToInt(p2.y), c)

\* a bug drawTriangle could have: nothing is drawn
drawTriangleNothing(t, p1, p2, p3, c) == t

\* TextureDrawer::drawTriangle(p1, p2, p3, c)
drawTriangle(t, p1, p2, p3, c) ==
    drawLineVec(drawLineVec(drawLineVec(t, p1, p2, c), p2, p3, c), p3, p1, c)

\* the points the three lines of drawTriangle hand to Texture::set
TrianglePoints(p1, p2, p3) ==
    LinePoints(ToInt(p1.x), ToInt(p1.y), ToInt(p2.x), ToInt(p2.y))
    \o LinePoints(ToInt(p2.x), ToInt(p2.y), ToInt(p3.x), ToInt(p3.y))
    \o LinePoints(ToInt(p3.x), ToInt(p3.y), ToInt(p1.x), ToInt(p1.y))

\* the drawTriangle calls of one render(), in order
RECURSIVE DrawTriangles(_, _, _)
DrawTriangles(t, tris, c) ==
    IF tris = <<>> THEN t
    ELSE LET u == drawTriangle(t, tris[1][1], tris[1][2], tris[1][3], c)
         IN  IF u.width = t.width THEN DrawTriangles(u, Tail(tris), c) ELSE u

\* the points one render() hands to Texture::set
RECURSIVE FramePoints(_)
FramePoints(tris) ==
    IF tris = <<>> THEN <<>>
    ELSE TrianglePoints(tris[1][1], tris[1][2], tris[1][3]) \o FramePoints(Tail(tris))

\* what the output may hold after a render() that converted a non-finite
\* float: the background, or the background with a stray cell set
UndefinedOutcomes(t, c) ==
    {t} \cup {TexSet(t, p[1], p[2], c) : p \in Cells(t)}

\* Quaternion::fromAxisAngle(axis, angle), the angle given by the sine and
\* the cosine of its half; the axis is not normalized
fromAxisAngle(axis, sinHalfAngle, cosHalfAngle) ==
    Quat(RMul(axis.x, sinHalfAngle), RMul(axis.y, sinHalfAngle), RMul(axis.z, sinHalfAngle),
         cosHalfAngle)

\* the quaternions of App::run, with angles whose half has an exact sine and
\* cosine in place of its small ones: a half turn (1, 0), a half turn back
\* (-1, 0) and a full turn back (0, -1)
rotationQuaternion == fromAxisAngle(VecI(0, 1, 0), R1, R0)
childQuaternion == fromAxisAngle(VecI(1, 0, 0), RNeg(R1), R0)
rotationQuaternion2 == fromAxisAngle(VecI(1, 1, 1), R0, RNeg(R1))

\* App::run has not started
RenderInit ==
    /\ pc = "start"
    /\ GraphIdle
    /\ IterIdle
    /\ TexIdle
    /\ WorldIdle
    /\ RenderIdle
    /\ MeshIdle
    /\ DisplayIdle
    /\ ProbeIdle
    /\ HeapIdle
    /\ InputIdle

\* RasciiRenderer renderer = RasciiRenderer(settings): the output is a
\* Texture(width, height), whose new Color[width * height] throws for a
\* negative size; nothing catches it
Construct ==
    /\ pc = "start"
    /\ \E st \in SettingsChoices :
          IF st.width * st.height < 0
          THEN /\ pc' = "aborted"
               /\ UNCHANGED <<tex, before, renderer>>
          ELSE /\ tex' = NewTexture(st.width, st.height, ColorDefault)
               /\ before' = tex'
               /\ renderer' = [settings |-> st, projection |-> MatIdentity,
                               view |-> MatIdentity, state |-> "Uninitialized"]
               /\ pc' = "scene"
    /\ UNCHANGED <<calls, lastOp, frameLog, graphVars, iterVars, worldVars, meshVars, displayVars, heapVars, inputVars, probeVars>>

\* App::run builds its scene: the two meshes are made, the nodes are moved and
\* scaled and linked with sceneGraph.addChild and transformNode->addChild
BuildScene ==
    /\ pc = "scene"
    /\ LET g0 == [parent |-> parent, children |-> children, freed |-> freed]
           g1 == addChild(g0, Root, TransformNodeName)
           g2 == addChild(g1, TransformNodeName, ChildNodeName)
           g3 == addChild(g2, Root, TransformNode2Name)
       IN  /\ parent' = g3.parent
           /\ children' = g3.children
           /\ freed' = g3.freed
    /\ nAdds' = nAdds + 3
    /\ transform' =
          [transform EXCEPT
              ![TransformNodeName] = move(@, VecI(3, 0, 0 - 25)),
              ![ChildNodeName] = scaleBy(move(@, VecI(0, 0, 0 - 5)), <<1, 2>>),
              ![TransformNode2Name] = move(@, VecI(0 - 3, 0, 0 - 15))]
    /\ meshes' = [meshPtr |-> centeredQuad, meshPtr2 |-> centeredQuad]
    /\ pc' = "prepare"
    /\ UNCHANGED <<worldOut, iterVars, texVars, renderVars, displayVars, heapVars, inputVars, probeVars>>

\* the head of the frame loop: _display.prepare(); renderer.prepare(); the
\* display's part is followed in SpecDisplay
Prepare ==
    /\ pc = "prepare"
    /\ frameLog.n < MaxFrames
    /\ \E o \in SetOutcomes :
          IF o = "returns"
          THEN /\ LET g == generateMatrices(renderer.settings)
                  IN  renderer' = [renderer EXCEPT !.projection = g.projection,
                                                   !.view = g.view, !.state = "Prepared"]
               /\ pc' = "listen"
          ELSE /\ renderer' = renderer
               /\ pc' = "undefined"
    /\ UNCHANGED <<frameLog, graphVars, iterVars, worldVars, texVars, meshVars, displayVars, heapVars, inputVars, probeVars>>

\* this->_inputListener->listen(): no callback touches the scene or the renderer
Listen ==
    /\ pc = "listen"
    /\ pc' = "render"
    /\ UNCHANGED <<renderVars, graphVars, iterVars, worldVars, texVars, meshVars, displayVars, heapVars, inputVars, probeVars>>

\* renderer.render(sceneGraph): fill with Color::greyscale(0.0f), then the
\* outline of every triangle of every node with a mesh in Color::greyscale(1.0f).
\* When a float that is not finite is converted to int, or the first
\* toTransformationMatrix() dies in Matrix::set, the frame is left undefined.
Render ==
    /\ pc = "render"
    /\ LET tris == FrameTriangles(renderer, parent, transform, Traverse(children, <<Root>>))
           blank == fill(tex, greyscale(0, 1))
       IN  \E o \in SetOutcomes :
              IF TrianglesDefined(tris) /\ (o = "returns" \/ tris = <<>>)
              THEN /\ tex' = DrawTriangles(blank, tris, greyscale(1, 1))
                   /\ calls' = FramePoints(tris)
                   /\ pc' = "draw"
              ELSE /\ tex' \in IF TrianglesDefined(tris) THEN {blank}
                             ELSE UndefinedOutcomes(blank, greyscale(1, 1))
                   /\ calls' = <<>>
                   /\ pc' = "undefined"
    /\ before' = tex
    /\ lastOp' = [NoOp EXCEPT !.op = "render"]
    /\ renderer' = [renderer EXCEPT !.state = "Rendered"]
    /\ frameLog' = [n |-> frameLog.n + 1, from |-> renderer.state,
                    projection |-> renderer.projection, view |-> renderer.view]
    /\ meshes' = MeshesAfterRender(meshes, parent, transform, Traverse(children, <<Root>>))
    /\ UNCHANGED <<graphVars, iterVars, worldVars, displayVars, heapVars, inputVars, probeVars>>

\* this->_display.draw(*renderer.getOutput()): the output is only read; what
\* the display makes of a texture is followed in SpecDisplay
Draw ==
    /\ pc = "draw"
    /\ pc' = "update"
    /\ UNCHANGED <<renderVars, graphVars, iterVars, worldVars, texVars, meshVars, displayVars, heapVars, inputVars, probeVars>>

\* the tail of the frame loop: the three nodes are turned
Update ==
    /\ pc = "update"
    /\ transform' =
          [transform EXCEPT
              ![TransformNodeName] = rotate(@, rotationQuaternion),
              ![ChildNodeName] = rotate(@, childQuaternion),
              ![TransformNode2Name] = rotate(@, rotationQuaternion2)]
    /\ pc' = "prepare"
    /\ UNCHANGED <<worldOut, renderVars, graphVars, iterVars, texVars, meshVars, displayVars, heapVars, inputVars, probeVars>>

RenderNext == Construct \/ BuildScene \/ Prepare \/ Listen \/ Render \/ Draw \/ Update

SpecRender == RenderInit /\ [][RenderNext]_vars

----------------------------------------------------------------------------
(* SpecQuad: one frame of a scene with a single node: a renderer is        *)
(* constructed, a centered quad is moved and added to the scene graph, and *)
(* prepare(), listen(), render() and draw() run once                       *)

QuadSettings ==
    {RenderSettings(w, h, 90, n, <<100, 1>>) : w \in {40, 20}, h \in {20, 10}, n \in {<<1, 10>>, R1}}

\* where transform.move puts the node
QuadPositions ==
    {VecI(x, y, z) : x \in {0 - 3, 0, 3}, y \in {0 - 1, 0, 1}, z \in {0 - 25, 0 - 15, 0 - 5}}

\* RasciiRenderer renderer = RasciiRenderer(settings)
QuadConstruct ==
    /\ pc = "start"
    /\ \E st \in QuadSettings :
          /\ tex' = NewTexture(st.width, st.height, ColorDefault)
          /\ renderer' = [settings |-> st, projection |-> MatIdentity,
                          view |-> MatIdentity, state |-> "Uninitialized"]
    /\ before' = tex'
    /\ pc' = "scene"
    /\ UNCHANGED <<calls, lastOp, frameLog, graphVars, iterVars, worldVars, meshVars,
                   displayVars, heapVars, inputVars, probeVars>>

\* the scene of App::run cut down to its first node: Mesh::centeredQuad()
\* behind meshPtr, transformNode moved and added to the scene graph
QuadBuild ==
    /\ pc = "scene"
    /\ LET g == addChild([parent |-> parent, children |-> children, freed |-> freed],
                         Root, TransformNodeName)
       IN  /\ parent' = g.parent
           /\ children' = g.children
           /\ freed' = g.freed
    /\ nAdds' = nAdds + 1
    /\ \E v \in QuadPositions :
          transform' = [transform EXCEPT ![TransformNodeName] = move(@, v)]
    /\ meshes' = [NoMeshes EXCEPT !["meshPtr"] = centeredQuad]
    /\ pc' = "prepare"
    /\ UNCHANGED <<worldOut, iterVars, texVars, renderVars, displayVars, heapVars, inputVars, probeVars>>

QuadNext == QuadConstruct \/ QuadBuild \/ Prepare \/ Listen \/ Render \/ Draw

SpecQuad == RenderInit /\ [][QuadNext]_vars

----------------------------------------------------------------------------
(* SpecCall: one function at a time is called on its own, on arguments     *)
(* drawn from small sets; probe records the call and what it returned      *)

\* the settings of the renderers whose worldToTexture is called
ProbeSettings ==
    SettingsChoices \cup
    {RenderSettings(12, 6, 90, R1, R2), RenderSettings(40, 20, 90, <<1, 10>>, <<100, 1>>)}

\* the world positions handed to worldToTexture: Vec(x, y, z), w = 1
WorldPoints == {VecI(x, y, z) : x \in {0 - 4, 0 - 1, 0, 1, 4}, y \in {0 - 2, 0 - 1, 0, 1, 2},
                                z \in {0 - 25, 0 - 1, 0, 1}}

\* the rotations, translations and scales of the transforms tried: the unit
\* quaternions are half turns and turns by the angle with cosine 7/25
ProbeQuats ==
    {QuatIdentity, HalfTurnY, HalfTurnX,
     Quat(<<3, 5>>, R0, R0, <<4, 5>>), Quat(R0, R0, <<3, 5>>, <<4, 5>>)}
ProbePositions == {VecDefault, VecI(3, 0, 0 - 25), VecI(1, 2, 3)}
ProbeScales == {VecI(1, 1, 1), Vec4(R2, <<3, 1>>, <<1, 2>>, R1)}
ProbeTransforms ==
    {Transform(p, r, s) : p \in ProbePositions, r \in ProbeQuats, s \in ProbeScales}

\* the meshes tried: Mesh(), centeredQuad(), its second triangle alone, and
\* Triangle::centeredTriangle() alone
ProbeMeshes ==
    {<<>>, centeredQuad, <<centeredQuad[2]>>,
     <<Triangle(VecI(0 - 1, 0 - 1, 0), VecI(0, 1, 0), VecI(0 - 1, 1, 0))>>}

CallInit ==
    /\ pc = "call"
    /\ GraphIdle
    /\ IterIdle
    /\ TexIdle
    /\ WorldIdle
    /\ RenderIdle
    /\ MeshIdle
    /\ DisplayIdle
    /\ ProbeIdle
    /\ HeapIdle
    /\ InputIdle

\* RasciiRenderer(st); prepare(); worldToTexture(p)
CallWorldToTexture ==
    /\ pc = "call"
    /\ \E st \in ProbeSettings, p \in WorldPoints, o \in SetOutcomes :
          IF o = "returns"
          THEN /\ probe' = [f |-> "worldToTexture", args |-> <<st, p>>,
                            result |-> worldToTexture(generateMatrices(st), p)]
               /\ pc' = "called"
          ELSE /\ probe' = [f |-> "generateMatrices", args |-> <<st>>, result |-> <<>>]
               /\ pc' = "undefined"
    /\ UNCHANGED <<texVars, graphVars, iterVars, worldVars, renderVars, meshVars, displayVars, heapVars, inputVars>>

\* mesh.transform(t.toTransformationMatrix()); the matrix is handed over as
\* it is when toTransformationMatrix() has returned
CallMeshTransform ==
    /\ pc = "call"
    /\ \E mesh \in ProbeMeshes, t \in ProbeTransforms :
          probe' = [f |-> "transform", args |-> <<mesh, TransformMatrix(t)>>,
                    result |-> MeshTransform(mesh, TransformMatrix(t))]
    /\ pc' = "called"
    /\ UNCHANGED <<texVars, graphVars, iterVars, worldVars, renderVars, meshVars, displayVars, heapVars, inputVars>>

\* t.toTransformationMatrix()
CallTransformMatrix ==
    /\ pc = "call"
    /\ \E t \in ProbeTransforms \cup {TransformDefault}, o \in SetOutcomes :
          IF o = "returns"
          THEN /\ probe' = [f |-> "toTransformationMatrix", args |-> <<t>>,
                            result |-> TransformMatrix(t)]
               /\ pc' = "called"
          ELSE /\ probe' = [f |-> "toTransformationMatrix", args |-> <<t>>, result |-> <<>>]
               /\ pc' = "undefined"
    /\ UNCHANGED <<texVars, graphVars, iterVars, worldVars, renderVars, meshVars, displayVars, heapVars, inputVars>>

\* t.rotate(q1); t.rotate(q2): the transform after each call
CallRotate ==
    /\ pc = "call"
    /\ \E t \in ProbeTransforms, q1 \in ProbeQuats, q2 \in ProbeQuats :
          probe' = [f |-> "rotate", args |-> <<t, q1, q2>>,
                    result |-> <<rotate(t, q1), rotate(rotate(t, q1), q2)>>]
    /\ pc' = "called"
    /\ UNCHANGED <<texVars, graphVars, iterVars, worldVars, renderVars, meshVars, displayVars, heapVars, inputVars>>

\* the colors a cell is given for luminanceToAscii: black, white, the greys
\* of luminance 1/3 and 2/3, and colors around them
ProbeColors ==
    {Color(r, g, b, a) : r \in {0, 1, 85, 119, 170, 201, 215, 255},
                         g \in {0, 51, 65, 85, 170, 173, 255},
                         b \in {0, 39, 49, 85, 170, 183, 255},
                         a \in {255}}

\* luminanceToAscii(c.getLuminance()), as draw() calls it for a cell c: the
\* index and the character
CallLuminanceToAscii ==
    /\ pc = "call"
    /\ \E c \in ProbeColors :
          IF InTable(getLuminanceFloat(c))
          THEN /\ probe' = [f |-> "luminanceToAscii", args |-> <<c>>,
                            result |-> <<luminanceIndex(getLuminanceFloat(c)),
                                         luminanceToAscii(getLuminanceFloat(c))>>]
               /\ pc' = "called"
          ELSE /\ probe' = [f |-> "luminanceToAscii", args |-> <<c>>,
                            result |-> <<luminanceIndex(getLuminanceFloat(c))>>]
               /\ pc' = "undefined"
    /\ UNCHANGED <<texVars, graphVars, iterVars, worldVars, renderVars, meshVars, displayVars, heapVars, inputVars>>

\* the quaternions multiplied with the identity: rotations, quaternions that
\* are no rotations, and quaternions with a component that is not finite
MulQuats ==
    ProbeQuats \cup {Quat(R2, <<0 - 3, 1>>, <<1, 2>>, <<5, 1>>), Quat(R0, R0, R0, R0),
                     Quat(<<1, 0>>, R0, R0, R1), Quat(R0, <<0 - 1, 0>>, R1, R0),
                     Quat(R0, R0, R0, NaN)}

\* Quaternion::identity() * q and q * Quaternion::identity()
CallQuatMul ==
    /\ pc = "call"
    /\ \E q \in MulQuats :
          probe' = [f |-> "operator*", args |-> <<q>>,
                    result |-> <<QuatMul(QuatIdentity, q), QuatMul(q, QuatIdentity)>>]
    /\ pc' = "called"
    /\ UNCHANGED <<texVars, graphVars, iterVars, worldVars, renderVars, meshVars, displayVars, heapVars, inputVars>>

CallNext ==
    \/ CallQuatMul
    \/ CallWorldToTexture
    \/ CallMeshTransform
    \/ CallTransformMatrix
    \/ CallRotate
    \/ CallLuminanceToAscii

SpecCall == CallInit /\ [][CallNext]_vars

----------------------------------------------------------------------------
(* SpecDisplay: an AsciiDisplay is constructed and a texture is shown on   *)
(* it: prepare() and draw(tex) frame after frame, and cleanup() at the end *)

\* the colors of the cell that differs from the rest of the texture
CellColors == {greyscale(1, 1), Color(201, 173, 49, 255)}

\* a Texture(w, h, c), which may have no cells, with one cell set, as a
\* renderer hands it over
DisplayInit ==
    /\ \E w \in 0..MaxW, h \in 0..MaxH, c \in FillColors, d \in CellColors :
          tex = TexSet(NewTexture(w, h, c), w - 1, 0, d)
    /\ before = tex
    /\ calls = <<>>
    /\ lastOp = NoOp
    /\ pc = "fresh"
    /\ GraphIdle
    /\ IterIdle
    /\ WorldIdle
    /\ RenderIdle
    /\ MeshIdle
    /\ DisplayIdle
    /\ ProbeIdle
    /\ HeapIdle
    /\ InputIdle

\* AsciiDisplay display(w, h)
DisplayConstruct ==
    /\ pc = "fresh"
    /\ \E w \in 1..MaxW, h \in 1..MaxH, garbage \in GarbageBytes :
          display' = AsciiDisplay(w, h, garbage)
    /\ pc' = "constructed"
    /\ UNCHANGED <<texVars, graphVars, iterVars, worldVars, renderVars, meshVars, heapVars, inputVars, probeVars>>

\* display.prepare()
DisplayPrepare ==
    /\ pc \in {"constructed", "drawn"}
    /\ display' = AsciiPrepare(display)
    /\ pc' = "prepared"
    /\ UNCHANGED <<texVars, graphVars, iterVars, worldVars, renderVars, meshVars, heapVars, inputVars, probeVars>>

\* display.draw(tex)
DisplayDraw ==
    /\ pc = "prepared"
    /\ IF DrawInTable(display, tex)
       THEN /\ display' = AsciiDraw(display, tex)
            /\ pc' = "drawn"
       ELSE /\ display' = display
            /\ pc' = "undefined"
    /\ UNCHANGED <<texVars, graphVars, iterVars, worldVars, renderVars, meshVars, heapVars, inputVars, probeVars>>

\* display.cleanup()
DisplayCleanup ==
    /\ pc \in {"constructed", "prepared", "drawn"}
    /\ display' = AsciiCleanup(display)
    /\ pc' = "cleaned"
    /\ UNCHANGED <<texVars, graphVars, iterVars, worldVars, renderVars, meshVars, heapVars, inputVars, probeVars>>

DisplayNext == DisplayConstruct \/ DisplayPrepare \/ DisplayDraw \/ DisplayCleanup

SpecDisplay == DisplayInit /\ [][DisplayNext]_vars

----------------------------------------------------------------------------
(* SpecFill: a texture is constructed and one filled shape is drawn on it  *)

\* the vertices fillTriangle is called with
TriangleVertices == {<<x, y>> : x \in (0 - 1)..TriSide, y \in 0..TriSide}

\* std::make_shared<Texture>(w, h); TextureDrawer drawer(texPtr)
FillInit ==
    /\ \E w \in (FillSide - 1)..FillSide, h \in (FillSide - 1)..FillSide :
          tex = NewTexture(w, h, ColorDefault)
    /\ before = tex
    /\ calls = <<>>
    /\ lastOp = NoOp
    /\ pc = "fresh"
    /\ GraphIdle
    /\ IterIdle
    /\ WorldIdle
    /\ RenderIdle
    /\ MeshIdle
    /\ DisplayIdle
    /\ ProbeIdle
    /\ HeapIdle
    /\ InputIdle

\* drawer.fillTriangle(Vec(x1, y1), Vec(x2, y2), Vec(x3, y3), c); probe
\* keeps the three vertices and the divisions made
DoFillTriangle ==
    /\ pc = "fresh"
    /\ \E p1 \in TriangleVertices, p2 \in TriangleVertices, p3 \in TriangleVertices :
          LET c == greyscale(1, 1)
              ps == OrderByY(p1, p2, p3)
          IN  /\ probe' = [f |-> "fillTriangle", args |-> <<p1, p2, p3>>,
                            result |-> TriangleDivisions(ps)]
              /\ lastOp' = [op |-> "fillTriangle", x1 |-> p1[1], y1 |-> p1[2],
                            x2 |-> p2[1], y2 |-> p2[2], c |-> c]
              /\ IF SlopesUsedFinite(ps)
                 THEN /\ tex' = fillTriangle(tex, p1, p2, p3, c)
                      /\ calls' = FillTrianglePoints(p1, p2, p3)
                      /\ pc' = "done"
                 ELSE /\ tex' \in UndefinedOutcomes(tex, c)
                      /\ calls' = <<>>
                      /\ pc' = "undefined"
    /\ before' = tex
    /\ UNCHANGED <<graphVars, iterVars, worldVars, renderVars, meshVars, displayVars, heapVars, inputVars>>

\* drawer.fillCircle(x, y, r, c)
DoFillCircle ==
    /\ pc = "fresh"
    /\ \E x \in XCoords(tex), y \in YCoords(tex), r \in 0..FillRadius, c \in DrawColors :
          /\ tex' = fillCircle(tex, x, y, r, c)
          /\ calls' = FillCirclePoints(x, y, r)
          /\ lastOp' = [op |-> "fillCircle", x1 |-> x, y1 |-> y, x2 |-> r, y2 |-> r, c |-> c]
    /\ before' = tex
    /\ pc' = "done"
    /\ UNCHANGED <<graphVars, iterVars, worldVars, renderVars, meshVars, displayVars, heapVars, inputVars, probeVars>>

FillNext == DoFillTriangle \/ DoFillCircle

SpecFill == FillInit /\ [][FillNext]_vars

----------------------------------------------------------------------------
(* SpecCopy: a program constructs the Texture objects t and u, copies one  *)
(* into the other, sets cells and destroys them; heap holds the arrays of  *)
(* new Color[], a Texture object's _pixels is an index of heap             *)

\* a deleted array: its cells are gone
Freed == [live |-> FALSE, cells |-> <<>>]

\* the array at an address is allocated and not yet deleted
LiveBlock(h, a) == a \in 1..Len(h) /\ h[a].live

\* new Color[n] filled with cells: the next address, never one used before
New(h, cells) == Append(h, [live |-> TRUE, cells |-> cells])

\* delete[] of the array at an address
Delete(h, a) == [h EXCEPT ![a] = Freed]

\* the Texture objects alive, with the object t under the name n
WithTexture(ts, n, t) == [k \in DOMAIN ts \cup {n} |-> IF k = n THEN t ELSE ts[k]]

\* the cells a Texture object reads through _pixels
PixelsOf(h, t) == h[t._pixels].cells

\* the sizes and colours of the textures constructed
CopySizes == {<<1, 1>>, <<2, 1>>}
CopyColors == {ColorDefault, greyscale(1, 1)}

\* no Texture object is alive and nothing was allocated
CopyInit ==
    /\ pc = "run"
    /\ heap = <<>>
    /\ textures = <<>>
    /\ frames = <<>>
    /\ GraphIdle
    /\ IterIdle
    /\ TexIdle
    /\ WorldIdle
    /\ RenderIdle
    /\ MeshIdle
    /\ DisplayIdle
    /\ ProbeIdle
    /\ InputIdle

\* Texture n(width, height, c): _pixels(new Color[width * height]), every
\* cell set to c
TextureConstruct ==
    /\ pc = "run"
    /\ Len(heap) < MaxBlocks
    /\ \E n \in TextureNames, sz \in CopySizes, c \in CopyColors :
          /\ n \notin DOMAIN textures
          /\ heap' = New(heap, [i \in 1..(sz[1] * sz[2]) |-> c])
          /\ textures' = WithTexture(textures, n, [_width |-> sz[1], _height |-> sz[2],
                                                  _pixels |-> Len(heap) + 1])
          /\ probe' = [f |-> "Texture", args |-> <<n, sz[1], sz[2], c>>, result |-> <<>>]
    /\ UNCHANGED <<pc, frames, texVars, graphVars, iterVars, worldVars, renderVars, meshVars,
                   displayVars, inputVars>>

\* Texture n(m), the copy constructor: _width(t._width), _height(t._height),
\* _pixels(t._pixels); no array is made, the pointer is copied
TextureCopyConstruct ==
    /\ pc = "run"
    /\ \E n \in TextureNames, m \in TextureNames :
          /\ n \notin DOMAIN textures
          /\ m \in DOMAIN textures
          /\ textures' = WithTexture(textures, n, [_width |-> textures[m]._width,
                                                   _height |-> textures[m]._height,
                                                   _pixels |-> textures[m]._pixels])
          /\ probe' = [f |-> "Texture(const Texture&)", args |-> <<n, m>>, result |-> <<>>]
    /\ UNCHANGED <<pc, heap, frames, texVars, graphVars, iterVars, worldVars, renderVars, meshVars,
                   displayVars, inputVars>>

\* n = m, operator=: the sizes are taken from m, delete[] _pixels, a new array
\* is made and filled from m's _pixels[i]. The delete[] of an array already
\* deleted, and the read of m's cells when m's array is the one just deleted,
\* are undefined; in n = n the cells read are those of the new array, which
\* new Color[] filled with Color()
TextureAssign ==
    /\ pc = "run"
    /\ Len(heap) < MaxBlocks
    /\ \E n \in TextureNames, m \in TextureNames :
          /\ n \in DOMAIN textures
          /\ m \in DOMAIN textures
          /\ probe' = [f |-> "operator=", args |-> <<n, m>>, result |-> <<>>]
          /\ LET old == textures[n]._pixels
                 size == textures[m]._width * textures[m]._height
                 deleted == Delete(heap, old)
                 fresh == New(deleted, [i \in 1..size |-> ColorDefault])
                 from == IF n = m THEN Len(heap) + 1 ELSE textures[m]._pixels
             IN  IF LiveBlock(heap, old) /\ LiveBlock(fresh, from)
                 THEN /\ heap' = [fresh EXCEPT ![Len(heap) + 1].cells =
                                      [i \in 1..size |-> fresh[from].cells[i]]]
                      /\ textures' = WithTexture(textures, n, [_width |-> textures[m]._width,
                                                              _height |-> textures[m]._height,
                                                              _pixels |-> Len(heap) + 1])
                      /\ pc' = pc
                 ELSE /\ pc' = "undefined"
                      /\ UNCHANGED <<heap, textures>>
    /\ UNCHANGED <<frames, texVars, graphVars, iterVars, worldVars, renderVars, meshVars,
                   displayVars, inputVars>>

\* n.set(x, y, c): nothing outside the sizes, else _pixels[y * _width + x] = c;
\* a store into a deleted array is undefined
TextureSet ==
    /\ pc = "run"
    /\ \E n \in TextureNames, x \in (0 - 1)..2, y \in 0..1, c \in CopyColors :
          /\ n \in DOMAIN textures
          /\ probe' = [f |-> "set", args |-> <<n, x, y, c>>, result |-> <<>>]
          /\ IF x < 0 \/ x >= textures[n]._width \/ y < 0 \/ y >= textures[n]._height
             THEN UNCHANGED <<pc, heap>>
             ELSE IF LiveBlock(heap, textures[n]._pixels)
             THEN /\ heap' = [heap EXCEPT ![textures[n]._pixels].cells[y * textures[n]._width + x + 1] = c]
                  /\ pc' = pc
             ELSE /\ pc' = "undefined"
                  /\ heap' = heap
    /\ UNCHANGED <<textures, frames, texVars, graphVars, iterVars, worldVars, renderVars, meshVars,
                   displayVars, inputVars>>

\* ~Texture() of n: delete[] _pixels; deleting an array twice is undefined
TextureDestroy ==
    /\ pc = "run"
    /\ \E n \in TextureNames :
          /\ n \in DOMAIN textures
          /\ probe' = [f |-> "~Texture", args |-> <<n>>, result |-> <<>>]
          /\ IF LiveBlock(heap, textures[n]._pixels)
             THEN /\ heap' = Delete(heap, textures[n]._pixels)
                  /\ textures' = [k \in DOMAIN textures \ {n} |-> textures[k]]
                  /\ pc' = pc
             ELSE /\ pc' = "undefined"
                  /\ UNCHANGED <<heap, textures>>
    /\ UNCHANGED <<frames, texVars, graphVars, iterVars, worldVars, renderVars, meshVars,
                   displayVars, inputVars>>

CopyNext ==
    TextureConstruct \/ TextureCopyConstruct \/ TextureAssign \/ TextureSet \/ TextureDestroy

SpecCopy == CopyInit /\ [][CopyNext]_vars

----------------------------------------------------------------------------
(* SpecDet: Matrix::determinant() or inverse() is called on a matrix and   *)
(* followed call by call; frames holds the activation records              *)

\* Matrix::submatrix(row, col): a Matrix(), the identity, whose upper left 3x3
\* cells are set to the cells of this matrix outside the row and the column
submatrix(m, row, col) ==
    [k \in 1..16 |->
        LET r == (k - 1) \div 4
            c == (k - 1) % 4
        IN  IF r < 3 /\ c < 3
            THEN MatAt(m, IF r < row THEN r ELSE r + 1, IF c < col THEN c ELSE c + 1)
            ELSE MatIdentity[k]]

\* pow(-1, row + col)
PowMinusOne(n) == IF n % 2 = 0 THEN R1 ELSE RNeg(R1)

\* the activation records: determinant() with its loop index and its sum,
\* cofactor(row, col), minor(row, col), inverse() with the determinant it got
\* and the number of the cofactor call it waits for, a value on its way to the
\* caller, and the exception of inverse()
DeterminantFrame(m) == [f |-> "determinant", m |-> m, i |-> 0, det |-> R0]
CofactorFrame(m, row, col) == [f |-> "cofactor", m |-> m, row |-> row, col |-> col]
MinorFrame(m, row, col) == [f |-> "minor", m |-> m, row |-> row, col |-> col]
InverseFrame(m) == [f |-> "inverse", m |-> m, det |-> NaN, k |-> 0, matrix |-> MatIdentity]
ReturnFrame(v) == [f |-> "return", value |-> v]
ThrowFrame == [f |-> "throw", what |-> "Matrix is not invertible"]

\* the cells inverse() sets, in the order of its loops, each <<row, col, the
\* row and the column of the cofactor stored there>>: result.set(row, col,
\* cofactor(row, col) / det) and result.set(col, row, cofactor(col, row) / det)
InverseCells ==
    <<<<0, 0, 0, 0>>, <<0, 0, 0, 0>>, <<0, 1, 0, 1>>, <<1, 0, 1, 0>>, <<0, 2, 0, 2>>,
      <<2, 0, 2, 0>>, <<0, 3, 0, 3>>, <<3, 0, 3, 0>>, <<1, 1, 1, 1>>, <<1, 1, 1, 1>>,
      <<1, 2, 1, 2>>, <<2, 1, 2, 1>>, <<1, 3, 1, 3>>, <<3, 1, 3, 1>>, <<2, 2, 2, 2>>,
      <<2, 2, 2, 2>>, <<2, 3, 2, 3>>, <<3, 2, 3, 2>>, <<3, 3, 3, 3>>, <<3, 3, 3, 3>>>>

\* the frame on top runs up to its next call or its return: determinant()
\* calls cofactor(0, i) while i < 4 and returns det after that; cofactor calls
\* minor; minor calls determinant() on the submatrix, a 4x4 Matrix again;
\* inverse() calls determinant(), then cofactor for every cell
Enter(fs) ==
    LET top == fs[Len(fs)]
        rest == SubSeq(fs, 1, Len(fs) - 1)
    IN  CASE top.f = "determinant" ->
                 IF top.i < 4 THEN Append(fs, CofactorFrame(top.m, 0, top.i))
                 ELSE Append(rest, ReturnFrame(top.det))
          [] top.f = "cofactor" -> Append(fs, MinorFrame(top.m, top.row, top.col))
          [] top.f = "minor" -> Append(fs, DeterminantFrame(submatrix(top.m, top.row, top.col)))
          [] top.f = "inverse" ->
                 IF top.k = 0 THEN Append(fs, DeterminantFrame(top.m))
                 ELSE IF top.k <= Len(InverseCells)
                 THEN Append(fs, CofactorFrame(top.m, InverseCells[top.k][3], InverseCells[top.k][4]))
                 ELSE Append(rest, ReturnFrame(top.matrix))

\* the callee returned v to a frame: det += at(0, i) * cofactor(0, i) and
\* the next i; pow(-1, row + col) * minor(row, col); m.determinant(); in
\* inverse() the determinant, tested against 0, or the cofactor, divided by
\* det and stored
Resume(frame, v) ==
    CASE frame.f = "determinant" ->
             [frame EXCEPT !.det = RAdd(@, RMul(MatAt(frame.m, 0, frame.i), v)), !.i = @ + 1]
      [] frame.f = "cofactor" -> ReturnFrame(RMul(PowMinusOne(frame.row + frame.col), v))
      [] frame.f = "minor" -> ReturnFrame(v)
      [] frame.f = "inverse" ->
             IF frame.k = 0
             THEN IF v = R0 THEN ThrowFrame ELSE [frame EXCEPT !.det = v, !.k = 1]
             ELSE [frame EXCEPT !.matrix = MatSet(@, InverseCells[frame.k][1],
                                                  InverseCells[frame.k][2], RDiv(v, frame.det)),
                                !.k = @ + 1]

\* one step of the running call: a value on top is handed to the caller
\* below it, any other frame on top runs on
CallStep(fs) ==
    LET top == fs[Len(fs)]
    IN  IF top.f = "return"
        THEN Append(SubSeq(fs, 1, Len(fs) - 2), Resume(fs[Len(fs) - 1], top.value))
        ELSE Enter(fs)

\* the matrices determinant() and inverse() are called on: the identity, a
\* shear (not symmetric, determinant 1), a swap of two rows (determinant -1),
\* a matrix without inverse and the matrix of a scale
Shear == MatSet(MatSet(MatIdentity, 0, 1, R2), 2, 3, <<3, 1>>)
RowSwap == MatSet(MatSet(MatSet(MatSet(MatIdentity, 0, 0, R0), 1, 1, R0), 0, 1, R1), 1, 0, R1)
Singular == MatSet(MatIdentity, 3, 3, R0)
ProbeMatrices == {MatIdentity, Shear, RowSwap, Singular, MatSet(MatIdentity, 1, 1, R2)}

DetInit ==
    /\ pc = "call"
    /\ GraphIdle
    /\ IterIdle
    /\ TexIdle
    /\ WorldIdle
    /\ RenderIdle
    /\ MeshIdle
    /\ DisplayIdle
    /\ ProbeIdle
    /\ HeapIdle
    /\ InputIdle

\* m.determinant() or m.inverse() is called from main
CallMatrix ==
    /\ pc = "call"
    /\ \E m \in ProbeMatrices, f \in {"determinant", "inverse"} :
          /\ probe' = [f |-> f, args |-> <<m>>, result |-> <<>>]
          /\ frames' = <<IF f = "inverse" THEN InverseFrame(m) ELSE DeterminantFrame(m)>>
    /\ pc' = "running"
    /\ UNCHANGED <<heap, textures, texVars, graphVars, iterVars, worldVars, renderVars, meshVars,
                   displayVars, inputVars>>

\* the call runs on by one call or return. The value that reaches main is
\* the result; an exception nothing catches ends the program; submatrix() and
\* inverse() store with Matrix::set, which returns or not (SetOutcomes); and
\* the stack of a process holds MaxCallDepth records at most: one more call
\* ends the program
MatrixStep ==
    /\ pc = "running"
    /\ LET top == frames[Len(frames)]
           next == CallStep(frames)
       IN  IF Len(frames) = 1 /\ top.f = "return"
           THEN /\ pc' = "called"
                /\ probe' = [probe EXCEPT !.result = top.value]
                /\ frames' = <<>>
           ELSE IF top.f = "throw"
           THEN /\ pc' = "terminate called"
                /\ UNCHANGED <<probe, frames>>
           ELSE IF Len(next) > MaxCallDepth
           THEN /\ pc' = "stack overflow"
                /\ UNCHANGED <<probe, frames>>
           ELSE \E o \in SetOutcomes :
                   IF o = "crashes" /\ top.f = "minor"
                   THEN /\ pc' = "crashed"
                        /\ UNCHANGED <<probe, frames>>
                   ELSE /\ frames' = next
                        /\ UNCHANGED <<pc, probe>>
    /\ UNCHANGED <<heap, textures, texVars, graphVars, iterVars, worldVars, renderVars, meshVars,
                   displayVars, inputVars>>

DetNext == CallMatrix \/ MatrixStep

SpecDet == DetInit /\ [][DetNext]_vars

----------------------------------------------------------------------------
(* SpecInput: InputListener::listen() is called frame after frame, as      *)
(* runtime_input.cpp defines it; each call gets the names of the keys that *)
(* are down from CommandLineListener::getKeysDown()                        *)

\* the key names getKeysDown() returns, in the order of std::map<std::string>
KeyOrder == <<"Q", "Shift", "W">>
Keys == {KeyOrder[i] : i \in 1..Len(KeyOrder)}

\* buttonCallbacks: the keys addCallback was called for, each with one
\* PressCallback(onPress, onHold, onRelease); Q has none
CallbackKeys == {"Shift", "W"}

\* what getKeysDown() may return: it pushes a name for every virtual key code
\* 0..255 that is down and has a name, so a name comes once for every code
\* that maps to it
KeysDownChoices ==
    {<<>>} \cup {<<k>> : k \in Keys} \cup {<<k1, k2>> : k1 \in Keys, k2 \in Keys}

\* the ButtonState _handleButtonDown and _handleButtonUp read: BUTTON_UP for a
\* key that buttonStates does not hold
StateOf(states, key) == IF key \in DOMAIN states THEN states[key] ELSE "BUTTON_UP"

\* buttonStates[key] = state
WithState(states, key, state) ==
    [k \in DOMAIN states \cup {key} |-> IF k = key THEN state ELSE states[k]]

\* an InputListener while listen() runs: buttonStates and the callbacks run
Listener(states, ran) == [states |-> states, ran |-> ran]

\* InputListener::_handleButtonDown(key): nothing for a key without
\* callbacks; from BUTTON_UP press() and the state BUTTON_DOWN; from
\* BUTTON_DOWN hold(); the switch has no other case
handleButtonDown(l, key) ==
    IF key \notin CallbackKeys THEN l
    ELSE IF StateOf(l.states, key) = "BUTTON_UP"
    THEN Listener(WithState(l.states, key, "BUTTON_DOWN"), Append(l.ran, <<key, "onPress">>))
    ELSE IF StateOf(l.states, key) = "BUTTON_DOWN"
    THEN Listener(l.states, Append(l.ran, <<key, "onHold">>))
    ELSE l

\* InputListener::_handleButtonUp(key): nothing for a key without callbacks
\* or in BUTTON_UP; else release() and the state BUTTON_UP
handleButtonUp(l, key) ==
    IF key \notin CallbackKeys THEN l
    ELSE IF StateOf(l.states, key) = "BUTTON_UP" THEN l
    ELSE Listener(WithState(l.states, key, "BUTTON_UP"), Append(l.ran, <<key, "onRelease">>))

\* the first loop of listen(): _handleButtonDown for every name of keysDown
RECURSIVE HandleDown(_, _, _)
HandleDown(l, down, i) ==
    IF i > Len(down) THEN l ELSE HandleDown(handleButtonDown(l, down[i]), down, i + 1)

\* the second loop of listen(): over buttonStates in the order of the map,
\* _handleButtonUp for a key in BUTTON_DOWN that std::find does not find in
\* keysDown
RECURSIVE HandleUp(_, _, _)
HandleUp(l, down, i) ==
    IF i > Len(KeyOrder) THEN l
    ELSE LET key == KeyOrder[i]
         IN  IF /\ key \in DOMAIN l.states
                /\ l.states[key] = "BUTTON_DOWN"
                /\ \A j \in 1..Len(down) : down[j] # key
             THEN HandleUp(handleButtonUp(l, key), down, i + 1)
             ELSE HandleUp(l, down, i + 1)

\* InputListener::listen() on the keys getKeysDown() returned; axisListeners
\* is empty
listen(states, down) == HandleUp(HandleDown(Listener(states, <<>>), down, 1), down, 1)

InputInit ==
    /\ pc = "loop"
    /\ GraphIdle
    /\ IterIdle
    /\ TexIdle
    /\ WorldIdle
    /\ RenderIdle
    /\ MeshIdle
    /\ DisplayIdle
    /\ ProbeIdle
    /\ HeapIdle
    /\ InputIdle

\* this->_inputListener->listen() of one frame
InputListen ==
    /\ pc = "loop"
    /\ Len(fired) < MaxListens
    /\ \E down \in KeysDownChoices :
          LET l == listen(buttonStates, down)
          IN  /\ keysDown' = down
              /\ buttonStates' = l.states
              /\ fired' = Append(fired, [keys |-> down, ran |-> l.ran])
    /\ UNCHANGED <<pc, texVars, graphVars, iterVars, worldVars, renderVars, meshVars, displayVars,
                   heapVars, probeVars>>

InputNext == InputListen

SpecInput == InputInit /\ [][InputNext]_vars

----------------------------------------------------------------------------
(* SpecLine: one TextureDrawer::drawLine call, an iteration of its loop a   *)
(* step, on end points near the texture and at the ends of the int range   *)

\* the least and the greatest value of a C++ int (32 bits)
IntMax == 2147483647
IntMin == 0 - IntMax - 1

\* a - b, a + b, 2 * a and std::abs(a) leave the range of int: signed
\* overflow, which is undefined behaviour
SubOverflows(a, b) == IF b < 0 THEN a > IntMax + b ELSE a < IntMin + b
AddOverflows(a, b) == IF b > 0 THEN a > IntMax - b ELSE a < IntMin - b
DoubleOverflows(a) == a > IntMax \div 2 \/ a < IntMin \div 2
AbsOverflows(a) == a = IntMin

\* the x coordinates drawLine is called with: around the texture, and far
\* out of it
LineXCoords(t) == XCoords(t) \cup {0 - IntMax, IntMax}

\* the locals of drawLine once dx, dy, sx, sy and err are initialised
LineFrame(x1, y1, x2, y2) ==
    LET dx == Abs(x2 - x1)
        dy == Abs(y2 - y1)
    IN  [x1 |-> x1, y1 |-> y1, x2 |-> x2, y2 |-> y2, dx |-> dx, dy |-> dy,
         sx |-> IF x1 < x2 THEN 1 ELSE 0 - 1, sy |-> IF y1 < y2 THEN 1 ELSE 0 - 1,
         err |-> dx - dy]

\* the initialisation of dx and dy overflows
LineFrameOverflows(x1, y1, x2, y2) ==
    \/ SubOverflows(x2, x1)
    \/ SubOverflows(y2, y1)
    \/ (~SubOverflows(x2, x1) /\ AbsOverflows(x2 - x1))
    \/ (~SubOverflows(y2, y1) /\ AbsOverflows(y2 - y1))

\* the rest of a loop iteration after the test for the end point overflows
LineIterationOverflows(f) ==
    \/ DoubleOverflows(f.err)
    \/ (~DoubleOverflows(f.err) /\
           LET e2 == 2 * f.err
               stepX == e2 > 0 - f.dy
               stepY == e2 < f.dx
           IN  \/ (stepX /\ (SubOverflows(f.err, f.dy) \/ AddOverflows(f.x1, f.sx)))
               \/ (stepY /\ (AddOverflows(IF stepX THEN f.err - f.dy ELSE f.err, f.dx)
                                \/ AddOverflows(f.y1, f.sy))))

\* the locals after the rest of a loop iteration
LineIteration(f) ==
    LET e2 == 2 * f.err
        stepX == e2 > 0 - f.dy
        stepY == e2 < f.dx
    IN  [f EXCEPT !.x1 = IF stepX THEN f.x1 + f.sx ELSE f.x1,
                  !.y1 = IF stepY THEN f.y1 + f.sy ELSE f.y1,
                  !.err = (IF stepX THEN f.err - f.dy ELSE f.err)
                          + (IF stepY THEN f.dx ELSE 0)]

LineInit ==
    /\ \E w \in 1..MaxW, h \in 1..MaxH : tex = NewTexture(w, h, ColorDefault)
    /\ before = tex
    /\ calls = <<>>
    /\ lastOp = NoOp
    /\ pc = "fresh"
    /\ GraphIdle
    /\ IterIdle
    /\ WorldIdle
    /\ RenderIdle
    /\ MeshIdle
    /\ DisplayIdle
    /\ ProbeIdle
    /\ HeapIdle
    /\ InputIdle

\* drawLine(x1, y1, x2, y2, c) is called and runs up to its loop
LineCall ==
    /\ pc = "fresh"
    /\ \E x1 \in LineXCoords(tex), y1 \in YCoords(tex),
          x2 \in LineXCoords(tex), y2 \in YCoords(tex), c \in DrawColors :
          /\ lastOp' = [op |-> "drawLine", x1 |-> x1, y1 |-> y1, x2 |-> x2, y2 |-> y2, c |-> c]
          /\ IF LineFrameOverflows(x1, y1, x2, y2)
             THEN /\ pc' = "undefined"
                  /\ frames' = frames
             ELSE /\ pc' = "loop"
                  /\ frames' = <<LineFrame(x1, y1, x2, y2)>>
    /\ before' = tex
    /\ UNCHANGED <<tex, calls, heap, textures, graphVars, iterVars, worldVars, renderVars,
                   meshVars, displayVars, inputVars, probeVars>>

\* one iteration of the while (true) loop: the set(), the test for the end
\* point and, short of it, the step
LineStep ==
    /\ pc = "loop"
    /\ LET f == frames[1]
       IN  /\ tex' = TexSet(tex, f.x1, f.y1, lastOp.c)
           /\ calls' = Append(calls, <<f.x1, f.y1>>)
           /\ IF f.x1 = f.x2 /\ f.y1 = f.y2
              THEN /\ pc' = "done"
                   /\ frames' = <<>>
              ELSE IF LineIterationOverflows(f)
              THEN /\ pc' = "undefined"
                   /\ frames' = frames
              ELSE /\ pc' = "loop"
                   /\ frames' = <<LineIteration(f)>>
    /\ UNCHANGED <<before, lastOp, heap, textures, graphVars, iterVars, worldVars, renderVars,
                   meshVars, displayVars, inputVars, probeVars>>

LineNext == LineCall \/ LineStep

SpecLine == LineInit /\ [][LineNext]_vars

----------------------------------------------------------------------------
(* Claims about the texture and its drawer (SpecTex)                       *)

Range(seq) == {seq[i] : i \in 1..Len(seq)}

Min(a, b) == IF a < b THEN a ELSE b
Max(a, b) == IF a < b THEN b ELSE a

\* the cells the last operation wrote: the in-bounds points it gave Texture::set
Written == {p \in Range(calls) : InBounds(before, p[1], p[2])}

\* C5: after drawLine(x1,y1,x2,y2,c) with both end points inside the texture,
\* the points it visits start at (x1,y1), end at (x2,y2), move by one cell
\* (8-connected) at each step and stay in the end points' bounding rectangle;
\* every visited cell holds c and every other cell is as it was. On a 5x1
\* texture the line (0,0)-(4,0) visits exactly the cells x = 0..4, y = 0.
C5_DrawLinePath ==
    (lastOp.op = "drawLine" /\ InBounds(before, lastOp.x1, lastOp.y1)
                            /\ InBounds(before, lastOp.x2, lastOp.y2)) =>
        /\ Len(calls) >= 1
        /\ calls[1] = <<lastOp.x1, lastOp.y1>>
        /\ calls[Len(calls)] = <<lastOp.x2, lastOp.y2>>
        /\ TexGet(tex, lastOp.x1, lastOp.y1) = lastOp.c
        /\ TexGet(tex, lastOp.x2, lastOp.y2) = lastOp.c
        /\ \A i \in 1..(Len(calls) - 1) :
              /\ Abs(calls[i + 1][1] - calls[i][1]) <= 1
              /\ Abs(calls[i + 1][2] - calls[i][2]) <= 1
              /\ calls[i + 1] # calls[i]
        /\ \A p \in Range(calls) :
              /\ Min(lastOp.x1, lastOp.x2) <= p[1] /\ p[1] <= Max(lastOp.x1, lastOp.x2)
              /\ Min(lastOp.y1, lastOp.y2) <= p[2] /\ p[2] <= Max(lastOp.y1, lastOp.y2)
        /\ tex.width = before.width /\ tex.height = before.height
        /\ \A p \in Cells(tex) :
              TexGet(tex, p[1], p[2]) =
                  IF p \in Range(calls) THEN lastOp.c ELSE TexGet(before, p[1], p[2])
        /\ (tex.width = 5 /\ tex.height = 1 /\ lastOp.x1 = 0 /\ lastOp.y1 = 0
                /\ lastOp.x2 = 4 /\ lastOp.y2 = 0) =>
              Range(calls) = {<<x, 0>> : x \in 0..4}

\* the line (0,0)-(4,0) was drawn on a 5x1 texture of another color
C5_Witness ==
    /\ lastOp.op = "drawLine"
    /\ tex.width = 5 /\ tex.height = 1
    /\ lastOp.x1 = 0 /\ lastOp.y1 = 0 /\ lastOp.x2 = 4 /\ lastOp.y2 = 0
    /\ \A x \in 0..4 : TexGet(before, x, 0) # lastOp.c /\ TexGet(tex, x, 0) = lastOp.c

\* C6 as stated: drawLine(P,Q,c) and drawLine(Q,P,c) on equal textures set
\* exactly the same cells.
C6_SameCellsBothOrders ==
    lastOp.op = "drawLine" =>
        Written = {p \in Range(LinePoints(lastOp.x2, lastOp.y2, lastOp.x1, lastOp.y1)) :
                      InBounds(before, p[1], p[2])}

\* the point reflection through the midpoint of the last line's end points
Reflect(p) == <<lastOp.x1 + lastOp.x2 - p[1], lastOp.y1 + lastOp.y2 - p[2]>>

\* C6 amended: the points drawLine(Q,P,c) visits are the point reflections
\* (x,y) -> (x1+x2-x, y1+y2-y) of the points drawLine(P,Q,c) visits, and the
\* two calls set the same cells when the line is horizontal, vertical or
\* diagonal (dx = 0, dy = 0 or dx = dy).
C6_ReflectedCells ==
    lastOp.op = "drawLine" =>
        LET rev == LinePoints(lastOp.x2, lastOp.y2, lastOp.x1, lastOp.y1)
            dx == Abs(lastOp.x2 - lastOp.x1)
            dy == Abs(lastOp.y2 - lastOp.y1)
        IN  /\ Range(rev) = {Reflect(p) : p \in Range(calls)}
            /\ Len(rev) = Len(calls)
            /\ (dx = 0 \/ dy = 0 \/ dx = dy) =>
                  drawLine(before, lastOp.x2, lastOp.y2, lastOp.x1, lastOp.y1, lastOp.c) = tex

\* a line was drawn whose reversal sets other cells
C6_Witness ==
    /\ lastOp.op = "drawLine"
    /\ Abs(lastOp.x2 - lastOp.x1) = 2 /\ Abs(lastOp.y2 - lastOp.y1) = 1
    /\ drawLine(before, lastOp.x2, lastOp.y2, lastOp.x1, lastOp.y1, lastOp.c) # tex

\* C7: a Texture::set outside the texture changes nothing and the call
\* returns normally; a set, line or circle changes only in-bounds cells among
\* the points it addressed, never another cell by index wrap-around.
C7_OutOfBoundsNoOp ==
    /\ (lastOp.op = "set" /\ ~InBounds(before, lastOp.x1, lastOp.y1)) =>
          (tex = before /\ pc = "done")
    /\ lastOp.op \in {"set", "drawLine", "drawCircle"} =>
          /\ tex.width = before.width /\ tex.height = before.height
          /\ Len(tex.pixels) = Len(before.pixels)
          /\ \A p \in Cells(tex) :
                TexGet(tex, p[1], p[2]) # TexGet(before, p[1], p[2]) => p \in Range(calls)
          /\ \A p \in Written : TexGet(tex, p[1], p[2]) = lastOp.c
          /\ pc = "done"

\* a line that is partly off-screen was drawn and changed some cell
C7_Witness ==
    /\ lastOp.op = "drawLine"
    /\ \E p \in Range(calls) : ~InBounds(before, p[1], p[2])
    /\ \E p \in Range(calls) : InBounds(before, p[1], p[2])
    /\ tex # before

\* C8: after fill(c) every cell equals c in all four channels.
C8_FillConstant ==
    lastOp.op = "fill" => \A p \in Cells(tex) : TexGet(tex, p[1], p[2]) = lastOp.c

----------------------------------------------------------------------------
(* Claims about the scene graph (SpecGraph)                                *)

\* the nodes listed as children of p
Kids(p) == Range(children[p])

\* the nodes reached from the set S by following children lists
RECURSIVE Reach(_)
Reach(S) ==
    LET T == S \cup UNION {Kids(p) : p \in S}
    IN  IF T = S THEN S ELSE Reach(T)

\* how often n is listed in the children lists of the nodes of S
RECURSIVE Listings(_, _)
Listings(S, n) ==
    IF S = {} THEN 0
    ELSE LET p == CHOOSE q \in S : TRUE
         IN  Cardinality({i \in 1..Len(children[p]) : children[p][i] = n})
             + Listings(S \ {p}, n)

\* what hangs below the root is a tree: the root is nobody's child and every
\* other node reached from it is listed exactly once
IsTree ==
    LET R == Reach({Root})
    IN  /\ Listings(R, Root) = 0
        /\ \A n \in R \ {Root} : Listings(R, n) = 1

\* the pre-order of the subtree of n: n, then the pre-orders of its children
\* in the order they were added (only used where IsTree holds)
RECURSIVE PreOrder(_)
RECURSIVE PreOrderAll(_)
PreOrder(n) == <<n>> \o PreOrderAll(children[n])
PreOrderAll(kids) ==
    IF kids = <<>> THEN <<>> ELSE PreOrder(Head(kids)) \o PreOrderAll(Tail(kids))

\* where n stands in a sequence without repetitions (0: nowhere)
IndexIn(seq, n) ==
    IF n \in Range(seq) THEN CHOOSE i \in 1..Len(seq) : seq[i] = n ELSE 0

\* C2: over a tree, the range-for hands out the root first and then the nodes
\* in pre-order: at every turn the nodes handed out so far are a prefix of the
\* pre-order of the root, the stack is empty exactly when the prefix is the
\* whole pre-order, and once the loop is left every node of the tree has been
\* handed out exactly once, each parent before its children and the children
\* of a node in the order they were added.
C2_PreOrderIteration ==
    (pc \in {"iter", "iterdone"} /\ IsTree) =>
        LET order == PreOrder(Root)
        IN  /\ Len(visited) <= Len(order)
            /\ visited = SubSeq(order, 1, Len(visited))
            /\ (stack = <<>>) <=> (visited = order)
            /\ pc = "iterdone" =>
                  /\ visited[1] = Root
                  /\ Range(visited) = Reach({Root})
                  /\ Len(visited) = Cardinality(Reach({Root}))
                  /\ \A p \in Reach({Root}) : \A i \in 1..Len(children[p]) :
                        /\ IndexIn(visited, p) < IndexIn(visited, children[p][i])
                        /\ \A j \in 1..(i - 1) :
                              IndexIn(visited, children[p][j]) < IndexIn(visited, children[p][i])

\* the loop was left over a tree of all four nodes in which the root has two
\* children and the first of them a child of its own
C2_Witness ==
    /\ pc = "iterdone"
    /\ IsTree
    /\ Len(children[Root]) = 2
    /\ Len(children[children[Root][1]]) = 1
    /\ Len(visited) = 4
    /\ visited[3] = children[children[Root][1]][1]
    /\ visited[4] = children[Root][2]

\* C4: after any addChild calls no node is its own descendant.
C4_Acyclic == \A n \in Nodes : n \notin Reach(Kids(n))

----------------------------------------------------------------------------
(* Claims about world matrices (SpecWorld)                                 *)

\* n and its ancestors, the topmost first
RECURSIVE ChainOf(_)
ChainOf(n) == IF parent[n] = Null THEN <<n>> ELSE Append(ChainOf(parent[n]), n)

\* the product of the local matrices of a sequence of nodes, first node leftmost
RECURSIVE LocalProduct(_)
LocalProduct(seq) ==
    IF Len(seq) = 1 THEN TransformMatrix(transform[seq[1]])
    ELSE MatMul(TransformMatrix(transform[Head(seq)]), LocalProduct(Tail(seq)))

\* C3: the matrix toTransformationMatrix() returns for a node is its parent's
\* world matrix times its local matrix (its local matrix when it has no
\* parent), that is the product of the local matrices from the topmost
\* ancestor down to the node; when every transform is the identity it is the
\* identity matrix.
C3_WorldIsParentTimesLocal ==
    worldOut.node # Null =>
        LET n == worldOut.node
        IN  /\ worldOut.matrix =
                  IF parent[n] = Null THEN TransformMatrix(transform[n])
                  ELSE MatMul(NodeMatrix(parent, transform, parent[n]), TransformMatrix(transform[n]))
            /\ worldOut.matrix = LocalProduct(ChainOf(n))
            /\ (transform = DefaultTransforms) => worldOut.matrix = MatIdentity

\* the world matrix of a node at depth 3 was asked for, and multiplying in
\* the other order would have given another matrix
C3_Witness ==
    /\ worldOut.node # Null
    /\ parent[worldOut.node] # Null
    /\ parent[parent[worldOut.node]] = Root
    /\ parent[Root] = Null
    /\ worldOut.matrix # LocalTimesParent(parent, transform, worldOut.node)
    /\ worldOut.matrix # MatIdentity

----------------------------------------------------------------------------
(* Claims about the renderer (SpecRender)                                  *)

\* a frame was rendered and every conversion in it was defined
FrameDrawn == lastOp.op = "render" /\ pc # "undefined"

\* C1: after each render(), every cell of the output that no triangle
\* outline of that frame wrote has luminance 0, whatever it held after the
\* frames before.
C1_NoGhosting ==
    FrameDrawn =>
        \A p \in Cells(tex) :
            p \notin Range(calls) => getLuminance(TexGet(tex, p[1], p[2])) = 0

\* a later frame was rendered in which a cell that the frame before had lit
\* is not written, while other cells are
C1_Witness ==
    /\ FrameDrawn
    /\ frameLog.n >= 2
    /\ \E p \in Cells(tex) :
          /\ getLuminance(TexGet(before, p[1], p[2])) > 0
          /\ p \notin Range(calls)
    /\ \E p \in Cells(tex) :
          p \in Range(calls) /\ getLuminance(TexGet(tex, p[1], p[2])) > 0

\* the settings are all positive
SettingsPositive(st) ==
    /\ st.width > 0
    /\ st.height > 0
    /\ st.fov > 0
    /\ st.nearPlane[1] > 0
    /\ st.farPlane[1] > 0

\* m has the entries given for the listed (row, col) places and the
\* identity's everywhere else
IdentityExcept(m, places) ==
    \A row \in 0..3, col \in 0..3 :
        MatAt(m, row, col) =
            IF \E e \in places : e[1] = row /\ e[2] = col
            THEN (CHOOSE e \in places : e[1] = row /\ e[2] = col)[3]
            ELSE IF row = col THEN R1 ELSE R0

\* C9: whenever render() has drawn a frame, the renderer was in the Prepared
\* state when the call started, and the projection and view matrices the
\* frame was drawn with are the ones derived from the RenderSettings: the
\* projection has aspect/tan(fov/2), 1/tan(fov/2), far/range and
\* -far*near/range in place with 1 and 0 in the last column, the view scales
\* and shifts by half the width and half the height.
C9_Lifecycle ==
    frameLog.n > 0 =>
        LET st == renderer.settings
            cot == RDiv(R1, TanHalfFov(st.fov))
            range == RSub(st.farPlane, st.nearPlane)
            halfW == RDiv(<<st.width, 1>>, R2)
            halfH == RDiv(<<st.height, 1>>, R2)
        IN  /\ frameLog.from = "Prepared"
            /\ renderer.state \in {"Prepared", "Rendered"}
            /\ IdentityExcept(frameLog.projection,
                  {<<0, 0, RMul(RDiv(<<st.height, 1>>, <<st.width, 1>>), cot)>>,
                   <<1, 1, cot>>,
                   <<2, 2, RDiv(st.farPlane, range)>>,
                   <<3, 2, RDiv(RNeg(RMul(st.farPlane, st.nearPlane)), range)>>,
                   <<2, 3, R1>>,
                   <<3, 3, R0>>})
            /\ IdentityExcept(frameLog.view,
                  {<<0, 0, halfW>>, <<1, 1, halfH>>, <<0, 3, halfW>>, <<1, 3, halfH>>})

\* a second frame was drawn, with positive settings, and the matrices it was
\* drawn with are not the ones the constructor left
C9_Witness ==
    /\ FrameDrawn
    /\ frameLog.n >= 2
    /\ SettingsPositive(renderer.settings)
    /\ frameLog.projection # MatIdentity
    /\ frameLog.view # MatIdentity
    /\ \E p \in Cells(tex) : getLuminance(TexGet(tex, p[1], p[2])) > 0

\* C10: prepare() and render() never run on a renderer whose settings have a
\* non-positive width, height, fov, near or far value.
C10_InvalidSettingsRejected ==
    renderer.state \in {"Prepared", "Rendered"} => SettingsPositive(renderer.settings)

----------------------------------------------------------------------------
(* Claims about functions called on their own (SpecCall)                   *)

\* the last call was worldToTexture on a point whose projection
\* (px, py, pz, pw) = projection * p is made of numbers (no infinity, no NaN,
\* which the matrices of settings such as fov = 0 produce) and has pw # 0
ProjectedCall ==
    /\ probe.f = "worldToTexture"
    /\ LET pp == MatVec(generateMatrices(probe.args[1]).projection, probe.args[2])
       IN  /\ IsFinite(pp.x) /\ IsFinite(pp.y) /\ IsFinite(pp.z) /\ IsFinite(pp.w)
           /\ pp.w # R0

\* the x and y of the last worldToTexture call's projection * p, divided by its w
NdcX == LET pp == MatVec(generateMatrices(probe.args[1]).projection, probe.args[2])
        IN  RDiv(pp.x, pp.w)
NdcY == LET pp == MatVec(generateMatrices(probe.args[1]).projection, probe.args[2])
        IN  RDiv(pp.y, pp.w)

\* C11: worldToTexture divides by w between the projection and the view
\* mapping: when the projected w is not zero the result has
\* x = width/2 * (1 + px/pw) and y = height/2 * (1 + py/pw), so that the
\* normalized device coordinates (-1,-1) land on pixel (0,0) and (1,1) on
\* (width, height)
C11_HomogeneousDivide ==
    ProjectedCall =>
        LET st == probe.args[1]
            halfW == RDiv(<<st.width, 1>>, R2)
            halfH == RDiv(<<st.height, 1>>, R2)
        IN  /\ probe.result.x = RMul(halfW, RAdd(R1, NdcX))
            /\ probe.result.y = RMul(halfH, RAdd(R1, NdcY))
            /\ (NdcX = RNeg(R1) /\ NdcY = RNeg(R1)) =>
                   (probe.result.x = R0 /\ probe.result.y = R0)
            /\ (NdcX = R1 /\ NdcY = R1) =>
                   (probe.result.x = <<st.width, 1>> /\ probe.result.y = <<st.height, 1>>)

\* worldToTexture was called on a point that projects to the corner (1,1) of
\* the normalized device coordinates, with a w other than 1
C11_Witness ==
    /\ ProjectedCall
    /\ NdcX = R1 /\ NdcY = R1
    /\ MatVec(generateMatrices(probe.args[1]).projection, probe.args[2]).w # R1
    /\ probe.args[1].width > 0

\* floor(L * 9) for the luminance L of the claim, computed without
\* rounding: L = (0.2126 r + 0.7152 g + 0.0722 b) / 255
ExactIndex(c) == (getLuminance(c) * (luminanceTableSize - 1)) \div (255 * 10000)

\* whether L * 9 is a whole number
OnBoundary(c) == (getLuminance(c) * (luminanceTableSize - 1)) % (255 * 10000) = 0

\* C17 as stated: for every Color cell luminanceToAscii returns the
\* character at index floor(L * 9), the index lies in [0, 9], a black cell
\* gives ' ' and a white cell gives '@'
C17_IndexIsFloor ==
    probe.f = "luminanceToAscii" =>
        /\ pc = "called"
        /\ probe.result[1] = ExactIndex(probe.args[1])
        /\ probe.result[1] \in 0..9
        /\ probe.result[2] = luminanceTable[ExactIndex(probe.args[1]) + 1]
        /\ probe.args[1] = Color(0, 0, 0, 255) => probe.result[2] = 32
        /\ probe.args[1] = Color(255, 255, 255, 255) => probe.result[2] = 64

\* C17, amended: the index lies in [0, 9] and is floor(L * 9), except that
\* where L * 9 is a whole number k > 0 it is k or k - 1; the character is
\* the one at that index; a black cell gives ' ' and a white cell gives '@'
C17_IndexIsFloorOffBoundaries ==
    probe.f = "luminanceToAscii" =>
        /\ pc = "called"
        /\ probe.result[1] \in 0..9
        /\ \/ probe.result[1] = ExactIndex(probe.args[1])
           \/ /\ OnBoundary(probe.args[1])
              /\ probe.result[1] = ExactIndex(probe.args[1]) - 1
        /\ probe.result[2] = luminanceTable[probe.result[1] + 1]
        /\ probe.args[1] = Color(0, 0, 0, 255) => probe.result[2] = 32
        /\ probe.args[1] = Color(255, 255, 255, 255) => probe.result[2] = 64

\* the color (201, 173, 49) has L * 9 = 6 and was given the character at 5
C17_Witness ==
    /\ probe.f = "luminanceToAscii"
    /\ probe.args[1] = Color(201, 173, 49, 255)
    /\ OnBoundary(probe.args[1])
    /\ ExactIndex(probe.args[1]) = 6
    /\ probe.result = <<5, 43>>

----------------------------------------------------------------------------
(* Claims about one frame of a single quad (SpecQuad)                      *)

\* the cells of the output with luminance 1
Foreground == {p \in Cells(tex) : getLuminance(TexGet(tex, p[1], p[2])) = 255 * 10000}

\* a frame was rendered of a quad that was moved along z only
CenteredQuadDrawn ==
    /\ FrameDrawn
    /\ transform[TransformNodeName].position.x = R0
    /\ transform[TransformNodeName].position.y = R0

\* twice the middle of the values of coordinate i (1: x, 2: y) over the foreground
TwiceMiddle(i) ==
    LET vs == {p[i] : p \in Foreground}
    IN  (CHOOSE v \in vs : \A u \in vs : v <= u) + (CHOOSE v \in vs : \A u \in vs : u <= v)

\* C12: rendering a single centered quad moved to z = -25 (or another
\* distance in front of the camera) with RenderSettings(40, 20, 90, 0.1, 100)
\* (or the other sizes and near planes tried) leaves at least one cell of
\* luminance 1, and the bounding box of these cells is centred on the middle
\* of the output, (20, 10), to within one cell
C12_QuadCentred ==
    CenteredQuadDrawn =>
        /\ Foreground # {}
        /\ Abs(TwiceMiddle(1) - renderer.settings.width) <= 2
        /\ Abs(TwiceMiddle(2) - renderer.settings.height) <= 2

\* the frame of the claim's own scene was rendered: 40 x 20, fov 90, near
\* 0.1, far 100, the quad at (0, 0, -25); its outline is more than one cell
C12_Witness ==
    /\ CenteredQuadDrawn
    /\ renderer.settings = RenderSettings(40, 20, 90, <<1, 10>>, <<100, 1>>)
    /\ transform[TransformNodeName].position.z = <<0 - 25, 1>>
    /\ Cardinality(Foreground) > 1

\* C13: Mesh::transform(M) returns as many triangles as the mesh has, in the
\* same order, every vertex with position M * position and normal M * normal
\* of the vertex it comes from; with M the identity the positions (and the
\* normals) are the source's
C13_MeshTransform ==
    probe.f = "transform" =>
        LET mesh == probe.args[1]
            M == probe.args[2]
            out == probe.result
        IN  /\ Len(out) = Len(mesh)
            /\ \A i \in 1..Len(mesh) : \A j \in 1..3 :
                   /\ out[i][j].position = MatVec(M, mesh[i][j].position)
                   /\ out[i][j].normal = MatVec(M, mesh[i][j].normal)
            /\ (M = MatIdentity) => out = mesh

\* centeredQuad() was transformed by a matrix that moves its positions,
\* changes its normals and tells its two triangles apart
C13_Witness ==
    /\ probe.f = "transform"
    /\ probe.args[1] = centeredQuad
    /\ probe.result[1][1].position # centeredQuad[1][1].position
    /\ probe.result[1][1].normal # centeredQuad[1][1].normal
    /\ probe.result[1] # probe.result[2]

\* toTransformationMatrix() was called and returned
TransformMatrixCalled == probe.f = "toTransformationMatrix" /\ pc = "called"

\* C15: Transform::toTransformationMatrix() is the scale-and-translation
\* matrix times the rotation matrix: applied to a point p with w = 1 it
\* gives position + scale * (R * p) component by component, with w = 1 (the
\* point is rotated, then scaled, then moved); a default Transform gives the
\* identity
C15_ScaleTranslateTimesRotation ==
    TransformMatrixCalled =>
        LET t == probe.args[1]
            R == toRotationMatrix(t.rotation)
        IN  /\ \A p \in WorldPoints :
                   LET rp == MatVec(R, p)
                       out == MatVec(probe.result, p)
                   IN  /\ out.x = RAdd(t.position.x, RMul(t.scale.x, rp.x))
                       /\ out.y = RAdd(t.position.y, RMul(t.scale.y, rp.y))
                       /\ out.z = RAdd(t.position.z, RMul(t.scale.z, rp.z))
                       /\ out.w = R1
            /\ (t = TransformDefault) => probe.result = MatIdentity

\* the matrix of a transform that moves, turns and scales unevenly was
\* asked for: with the rotation on the left it would be another matrix
C15_Witness ==
    /\ TransformMatrixCalled
    /\ probe.args[1].position = VecI(1, 2, 3)
    /\ probe.args[1].rotation = Quat(R0, R0, <<3, 5>>, <<4, 5>>)
    /\ probe.args[1].scale # VecI(1, 1, 1)
    /\ probe.result # TransformMatrixRotationLeft(probe.args[1])

\* the Hamilton product p * q of two quaternions, from i^2 = j^2 = k^2 = ijk = -1
Hamilton(p, q) ==
    Quat(RAdd(RAdd(RMul(p.w, q.x), RMul(p.x, q.w)), RSub(RMul(p.y, q.z), RMul(p.z, q.y))),
         RAdd(RAdd(RMul(p.w, q.y), RMul(p.y, q.w)), RSub(RMul(p.z, q.x), RMul(p.x, q.z))),
         RAdd(RAdd(RMul(p.w, q.z), RMul(p.z, q.w)), RSub(RMul(p.x, q.y), RMul(p.y, q.x))),
         RSub(RMul(p.w, q.w), RAdd(RAdd(RMul(p.x, q.x), RMul(p.y, q.y)), RMul(p.z, q.z))))

\* C16: Transform::rotate(q) replaces the rotation r by the Hamilton product
\* r * q, the new rotation on the right, and leaves position and scale
\* alone; rotate(q1) followed by rotate(q2) leaves (r * q1) * q2, which for
\* turns about different axes is not what the other order leaves
C16_RotateOnTheRight ==
    probe.f = "rotate" =>
        LET t == probe.args[1]
            q1 == probe.args[2]
            q2 == probe.args[3]
            axisX == Quat(<<3, 5>>, R0, R0, <<4, 5>>)
            axisZ == Quat(R0, R0, <<3, 5>>, <<4, 5>>)
        IN  /\ probe.result[1].rotation = Hamilton(t.rotation, q1)
            /\ probe.result[1].position = t.position
            /\ probe.result[1].scale = t.scale
            /\ probe.result[2].rotation = Hamilton(Hamilton(t.rotation, q1), q2)
            /\ probe.result[2].position = t.position
            /\ probe.result[2].scale = t.scale
            /\ (q1 = axisX /\ q2 = axisZ) =>
                   probe.result[2].rotation # Hamilton(Hamilton(t.rotation, q2), q1)

\* a transform that was already turned was turned about x and then about z:
\* the other order would have left another rotation matrix
C16_Witness ==
    /\ probe.f = "rotate"
    /\ probe.args[1].rotation = HalfTurnY
    /\ probe.args[2] = Quat(<<3, 5>>, R0, R0, <<4, 5>>)
    /\ probe.args[3] = Quat(R0, R0, <<3, 5>>, <<4, 5>>)
    /\ toRotationMatrix(probe.result[2].rotation) #
          toRotationMatrix(Hamilton(Hamilton(probe.args[1].rotation, probe.args[3]),
                                    probe.args[2]))

----------------------------------------------------------------------------
(* Claims about the scene during the frame loop (SpecRender)               *)

\* C14: render() never changes the scene: across every render() call the
\* triangles of every mesh (meshPtr is shared by two nodes) and every node's
\* transform, parent and children are what they were before the call
C14_RenderLeavesScene ==
    [][pc = "render" =>
          /\ meshes' = meshes
          /\ transform' = transform
          /\ parent' = parent
          /\ children' = children]_vars

\* two frames were drawn of a graph in which transformNode and childNode,
\* both in the graph, share the mesh behind meshPtr
C14_Witness ==
    /\ FrameDrawn
    /\ frameLog.n >= 2
    /\ MeshPtrOf(TransformNodeName) = MeshPtrOf(ChildNodeName)
    /\ meshes[MeshPtrOf(ChildNodeName)] = centeredQuad
    /\ parent[ChildNodeName] = TransformNodeName
    /\ parent[TransformNodeName] = Root

----------------------------------------------------------------------------
(* Claims about the display (SpecDisplay)                                  *)

\* C18: after draw(tex), for any texture size, the output buffer is a
\* row-major width x height grid: row y holds width characters of the table
\* (ASCII 0x20-0x7E) at y*(width+1) .. y*(width+1)+width-1 and one newline at
\* y*(width+1)+width, and nothing else is inside the grid
C18_GridAfterDraw ==
    pc = "drawn" =>
        \A y \in 0..(display.height - 1) :
            /\ \A x \in 0..(display.width - 1) :
                  /\ display.buffer[y * (display.width + 1) + x + 1] \in 32..126
                  /\ display.buffer[y * (display.width + 1) + x + 1] \in Range(luminanceTable)
            /\ display.buffer[y * (display.width + 1) + display.width + 1] = 10

----------------------------------------------------------------------------
(* Claims about filled shapes (SpecFill)                                   *)

\* C19: fillTriangle never divides by zero: when two vertices share a y or
\* all three are collinear, a slope whose denominator is 0 is not computed
C19_NoDivisionByZero ==
    probe.f = "fillTriangle" =>
        \A i \in 1..Len(probe.result) : probe.result[i].den # 0

\* whether fillCircle wrote the cell (x, y) of the texture
CellWritten(x, y) == InBounds(tex, x, y) /\ <<x, y>> \in Range(calls)

\* the offsets from the centre a fillCircle of the last radius can reach,
\* and one more
Offsets == (0 - (lastOp.x2 + 1))..(lastOp.x2 + 1)

\* whether the whole circle of the last fillCircle lies on the texture
CircleOnTexture ==
    /\ InBounds(tex, lastOp.x1 - lastOp.x2, lastOp.y1 - lastOp.y2)
    /\ InBounds(tex, lastOp.x1 + lastOp.x2, lastOp.y1 + lastOp.y2)

\* C20 as stated: for every radius and every centre the cells fillCircle
\* writes are symmetric under a quarter turn about the centre:
\* (cx + dx, cy + dy) is written if and only if (cx - dy, cy + dx) is
C20_WrittenCellsSymmetric ==
    lastOp.op = "fillCircle" =>
        \A dx \in Offsets, dy \in Offsets :
            CellWritten(lastOp.x1 + dx, lastOp.y1 + dy) <=>
                CellWritten(lastOp.x1 - dy, lastOp.y1 + dx)

\* C20, amended: the points fillCircle passes to Texture::set are symmetric
\* under a quarter turn about the centre, for every radius and centre; the
\* cells it writes are when the whole circle lies on the texture
C20_SetCallsSymmetric ==
    lastOp.op = "fillCircle" =>
        /\ \A dx \in Offsets, dy \in Offsets :
              <<lastOp.x1 + dx, lastOp.y1 + dy>> \in Range(calls) <=>
                  <<lastOp.x1 - dy, lastOp.y1 + dx>> \in Range(calls)
        /\ \A p \in Range(calls) : p[1] - lastOp.x1 \in Offsets /\ p[2] - lastOp.y1 \in Offsets
        /\ CircleOnTexture =>
              \A dx \in Offsets, dy \in Offsets :
                  CellWritten(lastOp.x1 + dx, lastOp.y1 + dy) <=>
                      CellWritten(lastOp.x1 - dy, lastOp.y1 + dx)

\* a circle of radius 3 about (3, 3) was filled on a 7 x 7 texture: 37 cells
C20_Witness ==
    /\ lastOp.op = "fillCircle"
    /\ lastOp.x1 = 3 /\ lastOp.y1 = 3 /\ lastOp.x2 = 3
    /\ tex.width = 7 /\ tex.height = 7
    /\ CircleOnTexture
    /\ Cardinality({p \in Cells(tex) : CellWritten(p[1], p[2])}) = 37
    /\ CellWritten(1, 1) /\ ~CellWritten(0, 1) /\ ~CellWritten(1, 0)

----------------------------------------------------------------------------
(* Claims about copies of textures (SpecCopy)                              *)

\* the Texture object m is alive and its array was not deleted
Valid(m) == m \in DOMAIN textures /\ LiveBlock(heap, textures[m]._pixels)

\* C21: copies of a Texture are deep: a set() on a texture, or its
\* destruction, leaves every other texture as it was: the same object, its
\* array still allocated and holding the same cells.
C21_CopyIsDeep ==
    [][\A m \in TextureNames :
          (Valid(m) /\ probe'.f \in {"set", "~Texture"} /\ probe'.args[1] # m)
          => /\ textures'[m] = textures[m]
             /\ LiveBlock(heap', textures[m]._pixels)
             /\ PixelsOf(heap', textures[m]) = PixelsOf(heap, textures[m])]_vars

----------------------------------------------------------------------------
(* Claims about Matrix::determinant and inverse (SpecDet)                  *)

\* the determinant of the 3x3 matrix left of a 4x4 one without a row and a
\* column, by the rule of Sarrus
Det3(m, row, col) ==
    LET s == submatrix(m, row, col)
        a(r, c) == MatAt(s, r, c)
        p(x, y, z) == RMul(RMul(x, y), z)
    IN  RSub(RAdd(RAdd(p(a(0, 0), a(1, 1), a(2, 2)), p(a(0, 1), a(1, 2), a(2, 0))),
                  p(a(0, 2), a(1, 0), a(2, 1))),
             RAdd(RAdd(p(a(0, 2), a(1, 1), a(2, 0)), p(a(0, 1), a(1, 0), a(2, 2))),
                  p(a(0, 0), a(1, 2), a(2, 1))))

\* the cofactor expansion of a 4x4 matrix along row 0
Laplace(m) ==
    RAdd(RSub(RMul(MatAt(m, 0, 0), Det3(m, 0, 0)), RMul(MatAt(m, 0, 1), Det3(m, 0, 1))),
         RSub(RMul(MatAt(m, 0, 2), Det3(m, 0, 2)), RMul(MatAt(m, 0, 3), Det3(m, 0, 3))))

\* the determinant() calls that have not returned
DeterminantDepth == Cardinality({k \in 1..Len(frames) : frames[k].f = "determinant"})

\* C22: determinant() terminates for every 4x4 matrix and returns the
\* cofactor expansion along row 0: the recursion through cofactor, minor and
\* submatrix reaches a base case after a bounded number of levels (4x4, 3x3,
\* 2x2, 1x1: never more than four determinant() calls are open at a time), so
\* the call never runs out of stack.
C22_DeterminantTerminates ==
    probe.f = "determinant" =>
        /\ pc # "stack overflow"
        /\ DeterminantDepth <= 4
        /\ pc = "called" => probe.result = Laplace(probe.args[1])

\* C23: for a matrix M with determinant 1 or -1, M.inverse() returns, and
\* M * M.inverse() is the identity matrix.
C23_InverseTimesMatrix ==
    (probe.f = "inverse" /\ Laplace(probe.args[1]) \in {R1, RNeg(R1)}) =>
        /\ pc \notin {"stack overflow", "terminate called"}
        /\ pc = "called" => MatMul(probe.args[1], probe.result) = MatIdentity

----------------------------------------------------------------------------
(* Claims about the quaternion product (SpecCall)                          *)

\* a == b on floats: a NaN equals nothing
FloatEq(a, b) == a # NaN /\ b # NaN /\ a = b

\* the quaternions are equal component for component
QuatEq(p, q) == FloatEq(p.x, q.x) /\ FloatEq(p.y, q.y) /\ FloatEq(p.z, q.z) /\ FloatEq(p.w, q.w)

\* every component of the quaternion is a finite number
QuatFinite(q) == IsFinite(q.x) /\ IsFinite(q.y) /\ IsFinite(q.z) /\ IsFinite(q.w)

\* C24 as stated: for every quaternion q, identity * q and q * identity equal
\* q component for component.
C24_IdentityIsUnit ==
    (probe.f = "operator*" /\ pc = "called") =>
        /\ QuatEq(probe.result[1], probe.args[1])
        /\ QuatEq(probe.result[2], probe.args[1])

\* C24, amended: for every quaternion q whose components are finite,
\* identity * q and q * identity equal q component for component.
C24_IdentityIsUnitOfFinite ==
    (probe.f = "operator*" /\ pc = "called" /\ QuatFinite(probe.args[1])) =>
        /\ QuatEq(probe.result[1], probe.args[1])
        /\ QuatEq(probe.result[2], probe.args[1])

\* the identity was multiplied with a quaternion that is no rotation and has
\* no zero component, and both products are that quaternion
C24_Witness ==
    /\ probe.f = "operator*"
    /\ pc = "called"
    /\ probe.args[1] = Quat(R2, <<0 - 3, 1>>, <<1, 2>>, <<5, 1>>)
    /\ probe.result = <<probe.args[1], probe.args[1]>>

----------------------------------------------------------------------------
(* Claims about the input listener (SpecInput)                             *)

\* the key was named by getKeysDown() in the i-th listen() call; no key is
\* down before the first call
DownAt(key, i) == i >= 1 /\ key \in Range(fired[i].keys)

\* the callbacks of a key the i-th listen() call ran, in order
RECURSIVE RanOf(_, _, _)
RanOf(key, ran, j) ==
    IF j > Len(ran) THEN <<>>
    ELSE IF ran[j][1] = key THEN <<ran[j][2]>> \o RanOf(key, ran, j + 1)
    ELSE RanOf(key, ran, j + 1)

\* C25: for a key with callbacks and every sequence of listen() calls, a call
\* runs onPress, once and alone, if the key is down in it and was not in the
\* call before; onHold, once and alone, if it is down in both; onRelease, once
\* and alone, if it is no longer down; and nothing if it was not down and is
\* not. A key without callbacks never gets a button state.
C25_PressHoldRelease ==
    /\ \A i \in 1..Len(fired), key \in CallbackKeys :
          RanOf(key, fired[i].ran, 1) =
              IF DownAt(key, i)
              THEN IF DownAt(key, i - 1) THEN <<"onHold">> ELSE <<"onPress">>
              ELSE IF DownAt(key, i - 1) THEN <<"onRelease">> ELSE <<>>
    /\ DOMAIN buttonStates \subseteq CallbackKeys

----------------------------------------------------------------------------
(* Claims about parents and children (SpecGraph)                           *)

\* C26: after any sequence of addChild calls every node listed in the
\* children of a node p has p as its parent, so that no node is listed as a
\* child of two nodes.
C26_ParentOfChildren == \A p \in Nodes : \A n \in Kids(p) : parent[n] = p

----------------------------------------------------------------------------
(* Claims about the stores of draw() (SpecDisplay)                         *)

\* the indices of _outputBuffer the last draw(tex) stored to, in order
DrawIndices == [k \in 1..Len(DrawStores(display, tex)) |-> DrawStores(display, tex)[k][1]]

\* the last index of the buffer, where the constructor put the NUL
LastIndex == getBufferSize(display.width, display.height) - 1

\* C27: for every display of width, height >= 1 and every texture size, each
\* index draw() stores to lies in 0 .. width * height + height - 1: no store
\* falls outside the width * height + height + 1 bytes of the buffer, and the
\* NUL at the last index is never overwritten.
C27_StoresInsideBuffer ==
    pc = "drawn" =>
        /\ Len(display.buffer) = display.width * display.height + display.height + 1
        /\ \A k \in 1..Len(DrawIndices) : DrawIndices[k] \in 0..(LastIndex - 1)
        /\ display.buffer[LastIndex + 1] = 0

\* a texture wider and higher than the display was drawn: the render was cut
\* to the display, and the line feed of the last row went to the index
\* before the NUL
C27_Witness ==
    /\ pc = "drawn"
    /\ display.width = 2 /\ display.height = 1
    /\ tex.width = MaxW /\ tex.height = MaxH
    /\ Len(DrawIndices) = 3
    /\ DrawIndices[3] = LastIndex - 1

----------------------------------------------------------------------------
(* Claims about the scanlines of fillTriangle (SpecFill)                   *)

\* a filled triangle was drawn
TriangleFilled == probe.f = "fillTriangle" /\ pc = "done"

\* the three vertices of the last fillTriangle, and their coordinates
Vertices == {probe.args[1], probe.args[2], probe.args[3]}
VertexXs == {p[1] : p \in Vertices}
VertexYs == {p[2] : p \in Vertices}

\* the smallest and the largest of a set of integers
Least(S) == CHOOSE a \in S : \A b \in S : a <= b
Greatest(S) == CHOOSE a \in S : \A b \in S : b <= a

\* the x of the points of the last operation on the scanline y
RowXs(y) == {p[1] : p \in {q \in Range(calls) : q[2] = y}}

\* the cells of the texture the last operation changed
Changed == {p \in Cells(tex) : TexGet(tex, p[1], p[2]) # TexGet(before, p[1], p[2])}

\* C28: for vertices with integer coordinates every cell fillTriangle sets
\* lies inside the bounding box of the three vertices, on a scanline y with
\* top.y <= y < bottom.y; every such scanline gets one horizontal span (the x
\* set on it are an interval that is not empty); the scanline of the bottom
\* vertex is never drawn, and three vertices on one y draw nothing.
C28_ScanlinesInsideBox ==
    TriangleFilled =>
        /\ \A p \in Range(calls) :
              /\ p[1] \in Least(VertexXs)..Greatest(VertexXs)
              /\ p[2] \in Least(VertexYs)..(Greatest(VertexYs) - 1)
        /\ \A y \in Least(VertexYs)..(Greatest(VertexYs) - 1) :
              /\ RowXs(y) # {}
              /\ RowXs(y) = Least(RowXs(y))..Greatest(RowXs(y))
        /\ Changed \subseteq Range(calls)
        /\ Cardinality(VertexYs) = 1 => calls = <<>>

\* the triangle (0,0), (2,0), (1,2) was filled on a texture that holds it:
\* the scanlines 0 and 1 were drawn, 0 from x = 0 to 2, and the scanline of
\* the bottom vertex was not
C28_Witness ==
    /\ TriangleFilled
    /\ probe.args = <<<<0, 0>>, <<2, 0>>, <<1, 2>>>>
    /\ RowXs(0) = 0..2
    /\ RowXs(1) # {}
    /\ RowXs(2) = {}
    /\ Changed = Range(calls)

\* C29: for vertices with integer coordinates every scanline iteration of
\* fillTriangle uses only slopes whose denominator is not zero: the body of
\* the top loop runs only if middle.y > top.y, that of the bottom loop only
\* if bottom.y > middle.y, and then bottom.y > top.y; so no value computed
\* from a division by zero is converted to a pixel coordinate.
C29_SlopesUsedHaveDenominator ==
    probe.f = "fillTriangle" =>
        LET ps == OrderByY(probe.args[1], probe.args[2], probe.args[3])
        IN  /\ pc # "undefined"
            /\ TopRows(ps) # {} => probe.result[1].den > 0 /\ probe.result[2].den > 0
            /\ BottomRows(ps) # {} => probe.result[3].den > 0 /\ probe.result[2].den > 0

\* a triangle with a flat top was filled: topToMiddleSlope was computed with
\* the denominator 0, the top loop had no iteration and the bottom loop drew
\* two scanlines
C29_Witness ==
    /\ TriangleFilled
    /\ probe.args = <<<<0, 0>>, <<2, 0>>, <<1, 2>>>>
    /\ probe.result[1].den = 0
    /\ ~IsFinite(probe.result[1].slope)
    /\ {p[2] : p \in Range(calls)} = {0, 1}

----------------------------------------------------------------------------
(* Claims about the loop of drawLine (SpecLine)                            *)

\* the end points of the running or finished drawLine call are apart by
\* less than the range of int
LineNear == /\ ~SubOverflows(lastOp.x2, lastOp.x1)
            /\ ~SubOverflows(lastOp.y2, lastOp.y1)

\* the number of steps from the first end point to the second
LineSteps == Max(Abs(lastOp.x2 - lastOp.x1), Abs(lastOp.y2 - lastOp.y1))

\* the loop of the last drawLine call is max(|x2-x1|, |y2-y1|) - (steps
\* taken) steps from (x2, y2), stays between the end points and, once it has
\* ended, has made max(|x2-x1|, |y2-y1|) steps and set (x2, y2) last
LineLoopCounts ==
    /\ Len(calls) - 1 <= LineSteps
    /\ \A i \in 1..Len(calls) :
          /\ Max(Abs(lastOp.x2 - calls[i][1]), Abs(lastOp.y2 - calls[i][2])) = LineSteps - (i - 1)
          /\ Min(lastOp.x1, lastOp.x2) <= calls[i][1] /\ calls[i][1] <= Max(lastOp.x1, lastOp.x2)
          /\ Min(lastOp.y1, lastOp.y2) <= calls[i][2] /\ calls[i][2] <= Max(lastOp.y1, lastOp.y2)
    /\ pc = "loop" =>
          Max(Abs(lastOp.x2 - frames[1].x1), Abs(lastOp.y2 - frames[1].y1))
              = LineSteps - Len(calls)
    /\ pc = "done" =>
          /\ Len(calls) - 1 = LineSteps
          /\ calls[Len(calls)] = <<lastOp.x2, lastOp.y2>>
          /\ calls = LinePoints(lastOp.x1, lastOp.y1, lastOp.x2, lastOp.y2)

\* C30: drawLine terminates for every pair of integer end points, in or
\* out of the texture: every call is defined, and its loop reaches (x2, y2)
\* after exactly max(|x2-x1|, |y2-y1|) steps without stepping past it.
C30_DrawLineTerminates ==
    lastOp.op = "drawLine" => (pc # "undefined" /\ LineNear /\ LineLoopCounts)

\* what holds of C30: a call whose arithmetic stays in the range of int
\* counts its steps down to (x2, y2)
LineLoopCountsWhenDefined ==
    (lastOp.op = "drawLine" /\ pc # "undefined") => (LineNear /\ LineLoopCounts)

\* a line of several steps between points out of the texture has ended
LineFarApartEnded ==
    /\ pc = "done" /\ Len(calls) >= 4
    /\ ~InBounds(tex, lastOp.x1, lastOp.y1) /\ ~InBounds(tex, lastOp.x2, lastOp.y2)

====
